---- MODULE Spec2Model ----
(***************************************************************************)
(* SwiftSSH: the configuration file engine (internal/config parser and     *)
(* writer) and the interactive model (internal/tui) that drives it.        *)
(*                                                                         *)
(* Text is modelled at byte level: a string is a sequence of one-character *)
(* strings, a file is such a sequence with "\n" and "\r" in it, and the    *)
(* helpers of Go's strings/bufio packages are operators over sequences.    *)
(***************************************************************************)
EXTENDS Integers, Sequences, FiniteSets, TLC

\* ------------------------------------------------------------------------
\* Go string helpers (strings.TrimSpace, HasPrefix, Contains, ...)
\* ------------------------------------------------------------------------

SetMin(S) == CHOOSE x \in S : \A y \in S : x <= y

SetMax(S) == CHOOSE x \in S : \A y \in S : x >= y

UpperLetters == <<"A","B","C","D","E","F","G","H","I","J","K","L","M","N","O","P","Q","R","S","T","U","V","W","X","Y","Z">>

LowerLetters == <<"a","b","c","d","e","f","g","h","i","j","k","l","m","n","o","p","q","r","s","t","u","v","w","x","y","z">>

ToLowerCh(c) == IF \E i \in 1..26 : UpperLetters[i] = c THEN LowerLetters[CHOOSE i \in 1..26 : UpperLetters[i] = c] ELSE c

ToLower(s) == [i \in 1..Len(s) |-> ToLowerCh(s[i])]

EqualFold(a, b) == ToLower(a) = ToLower(b)

IsSpace(c) == c \in {" ", "\t", "\n", "\r", "\f"}

TrimSpace(s) ==
  LET keep == {i \in 1..Len(s) : ~IsSpace(s[i])}
  IN IF keep = {} THEN <<>> ELSE SubSeq(s, SetMin(keep), SetMax(keep))

HasPrefix(s, p) == Len(s) >= Len(p) /\ SubSeq(s, 1, Len(p)) = p

HasSuffix(s, p) == Len(s) >= Len(p) /\ SubSeq(s, Len(s) - Len(p) + 1, Len(s)) = p

TrimPrefix(s, p) == IF HasPrefix(s, p) THEN SubSeq(s, Len(p) + 1, Len(s)) ELSE s

Contains(s, sub) == \E i \in 0..(Len(s) - Len(sub)) : SubSeq(s, i + 1, i + Len(sub)) = sub

\* strings.IndexAny(s, " \t"): 0-based index of the first blank or tab, -1 if none
IndexAnyBlank(s) ==
  LET hits == {i \in 1..Len(s) : s[i] \in {" ", "\t"}}
  IN IF hits = {} THEN -1 ELSE SetMin(hits) - 1

\* strings.Trim(s, `"`): every leading and trailing double quote is removed
TrimQuotes(s) ==
  LET keep == {i \in 1..Len(s) : s[i] # "\""}
  IN IF keep = {} THEN <<>> ELSE SubSeq(s, SetMin(keep), SetMax(keep))

RECURSIVE Split(_, _)
\* strings.Split(s, sep) for a one-character separator
Split(s, sep) ==
  LET hits == {i \in 1..Len(s) : s[i] = sep}
  IN IF hits = {} THEN <<s>>
     ELSE <<SubSeq(s, 1, SetMin(hits) - 1)>> \o Split(SubSeq(s, SetMin(hits) + 1, Len(s)), sep)

RECURSIVE Join(_, _)
\* strings.Join(parts, sep)
Join(parts, sep) ==
  IF Len(parts) = 0 THEN <<>>
  ELSE IF Len(parts) = 1 THEN parts[1]
  ELSE parts[1] \o sep \o Join(Tail(parts), sep)

\* ------------------------------------------------------------------------
\* Literals of the config format
\* ------------------------------------------------------------------------

NL == <<"\n">>

SP == <<" ">>

IND4 == <<" ", " ", " ", " ">>

kHost == <<"H","o","s","t">>

kHostname == <<"H","o","s","t","n","a","m","e">>

kUser == <<"U","s","e","r">>

kPort == <<"P","o","r","t">>

kIdentityFile == <<"I","d","e","n","t","i","t","y","F","i","l","e">>

kInclude == <<"I","n","c","l","u","d","e">>

tagGroup == <<"@","g","r","o","u","p">>

magicPrefix == <<"#", " ">> \o tagGroup \o SP

port22 == <<"2", "2">>

star == <<"*">>

\* ------------------------------------------------------------------------
\* internal/config/writer.go: line helpers and serialisation
\* ------------------------------------------------------------------------

dropCR(s) == IF Len(s) > 0 /\ s[Len(s)] = "\r" THEN SubSeq(s, 1, Len(s) - 1) ELSE s

RECURSIVE splitLines(_)
\* bufio.Scanner with ScanLines: split at "\n", strip one trailing "\r",
\* a final unterminated non-empty line is a line, a final "\n" adds none
splitLines(data) ==
  IF Len(data) = 0 THEN <<>>
  ELSE LET nls == {i \in 1..Len(data) : data[i] = "\n"}
       IN IF nls = {} THEN <<dropCR(data)>>
          ELSE <<dropCR(SubSeq(data, 1, SetMin(nls) - 1))>>
               \o splitLines(SubSeq(data, SetMin(nls) + 1, Len(data)))

\* 0-based access to a Go slice held as a TLA+ sequence
At(lines, i) == lines[i + 1]

\* lines[a:b] of a Go slice
Slice(lines, a, b) == SubSeq(lines, a + 1, b)

\* the trimmed line cut at idx, the 0-based index of its first blank or tab
cutKeyword(trimmed, idx) ==
  IF idx = -1 THEN [keyword |-> trimmed, value |-> <<>>]
  ELSE [keyword |-> SubSeq(trimmed, 1, idx),
        value |-> TrimSpace(SubSeq(trimmed, idx + 2, Len(trimmed)))]

keywordOf(trimmed) ==
  IF trimmed = <<>> \/ HasPrefix(trimmed, <<"#">>) THEN [keyword |-> <<>>, value |-> <<>>]
  ELSE cutKeyword(trimmed, IndexAnyBlank(trimmed))

parseHostLine(line) == keywordOf(TrimSpace(line))

IsHostLine(line) == EqualFold(parseHostLine(line).keyword, kHost)

\* end moved back over the blank lines above it, never past blockStart + 1
backOverBlanks(lines, blockStart, end) ==
  SetMin({e \in (blockStart + 1)..end :
            \A j \in e..(end - 1) : TrimSpace(At(lines, j)) = <<>>})

\* the end of the block in front of the Host line at index i: back over a
\* line above it that contains "@group", then over blank lines
endBefore(lines, blockStart, i) ==
  backOverBlanks(lines, blockStart,
                 IF i > blockStart + 1 /\ Contains(At(lines, i - 1), tagGroup)
                 THEN i - 1 ELSE i)

firstOrEnd(lines, blockStart, hostIdx) ==
  IF hostIdx = {} THEN Len(lines) ELSE endBefore(lines, blockStart, SetMin(hostIdx))

findBlockEnd(lines, blockStart) ==
  firstOrEnd(lines, blockStart,
             {i \in (blockStart + 1)..(Len(lines) - 1) : IsHostLine(At(lines, i))})

buildHostBlock(h) ==
  (IF Len(h.Groups) > 0 THEN magicPrefix \o Join(h.Groups, <<",", " ">>) \o NL ELSE <<>>)
  \o kHost \o SP \o h.Alias \o NL
  \o IND4 \o kHostname \o SP \o h.Hostname \o NL
  \o (IF h.User # <<>> THEN IND4 \o kUser \o SP \o h.User \o NL ELSE <<>>)
  \o (IF h.Port # <<>> /\ h.Port # port22 THEN IND4 \o kPort \o SP \o h.Port \o NL ELSE <<>>)
  \o (IF h.IdentityFile # <<>>
      THEN IND4 \o kIdentityFile \o SP \o <<"\"">> \o h.IdentityFile \o <<"\"">> \o NL ELSE <<>>)

\* the lookup comparing the alias with the hostname
IsKnownHostByAlias(hosts, hostname) == \E i \in 1..Len(hosts) : hosts[i].Alias = hostname

IsKnownHost(hosts, hostname) == \E i \in 1..Len(hosts) : hosts[i].Hostname = hostname

\* ------------------------------------------------------------------------
\* internal/config/parser.go
\* ------------------------------------------------------------------------

EmptyHost == [Alias |-> <<>>, Hostname |-> <<>>, User |-> <<>>, Port |-> <<>>,
              IdentityFile |-> <<>>, Groups |-> <<>>, SourceFile |-> <<>>, LineStart |-> 0]

NonEmptyTrimmed(parts) ==
  LET t == [i \in 1..Len(parts) |-> TrimSpace(parts[i])]
  IN SelectSeq(t, LAMBDA x : x # <<>>)

parseMagicComment(line) ==
  LET trimmed == TrimSpace(line)
      rest == TrimSpace(SubSeq(trimmed, 2, Len(trimmed)))
      tagsPart == TrimSpace(TrimPrefix(rest, tagGroup))
  IN IF ~HasPrefix(trimmed, <<"#">>) THEN <<>>
     ELSE IF ~HasPrefix(rest, tagGroup) THEN <<>>
     ELSE IF tagsPart = <<>> THEN <<>>
     ELSE NonEmptyTrimmed(Split(tagsPart, ","))

FileExists(fs, path) == path \in DOMAIN fs /\ fs[path].exists

\* the hosts list after "finalize current host": an open block whose alias
\* is not "*" is appended with its port defaulted to "22"
\* finalizeHost keeping the wildcard block
finalizeHostKeepingWildcard(st) ==
  IF st.cur.open
  THEN Append(st.hosts, [st.cur.h EXCEPT !.Port = IF @ = <<>> THEN port22 ELSE @])
  ELSE st.hosts

finalizeHostMerging(st) ==
  IF /\ st.cur.open
     /\ st.cur.h.Alias # star
     /\ \A k \in 1..Len(st.hosts) : st.hosts[k].Alias # st.cur.h.Alias
  THEN Append(st.hosts, [st.cur.h EXCEPT !.Port = IF @ = <<>> THEN port22 ELSE @])
  ELSE st.hosts

finalizeHost(st) ==
  IF st.cur.open /\ st.cur.h.Alias # star
  THEN Append(st.hosts, [st.cur.h EXCEPT !.Port = IF @ = <<>> THEN port22 ELSE @])
  ELSE st.hosts

RECURSIVE parseFile(_, _, _)
\* the loop body with a previous-line buffer that blank lines leave alone
scanStepSkippingBlanks(fs, path, line, lineNum, st) ==
  LET trimmed == TrimSpace(line)
      idx == IndexAnyBlank(trimmed)
      keyword == ToLower(SubSeq(trimmed, 1, idx))
      value == TrimSpace(SubSeq(trimmed, idx + 2, Len(trimmed)))
      fin == finalizeHost(st)
      closed == IF st.cur.open /\ st.cur.h.Alias # star
                THEN [open |-> FALSE, h |-> EmptyHost] ELSE st.cur
  IN IF trimmed = <<>> THEN st
     ELSE IF HasPrefix(trimmed, <<"#">>) THEN [st EXCEPT !.prev = line]
     ELSE IF idx = -1 THEN [st EXCEPT !.prev = line]
     ELSE IF keyword = ToLower(kHost)
       THEN [st EXCEPT !.hosts = fin,
                       !.cur = [open |-> TRUE,
                                h |-> [EmptyHost EXCEPT !.Alias = value, !.SourceFile = path,
                                         !.Groups = parseMagicComment(st.prev),
                                         !.LineStart = lineNum]],
                       !.prev = line]
     ELSE IF keyword = ToLower(kHostname)
       THEN [st EXCEPT !.cur.h.Hostname = IF st.cur.open THEN value ELSE @, !.prev = line]
     ELSE IF keyword = ToLower(kUser)
       THEN [st EXCEPT !.cur.h.User = IF st.cur.open THEN value ELSE @, !.prev = line]
     ELSE IF keyword = ToLower(kPort)
       THEN [st EXCEPT !.cur.h.Port = IF st.cur.open THEN value ELSE @, !.prev = line]
     ELSE IF keyword = ToLower(kIdentityFile)
       THEN [st EXCEPT !.cur.h.IdentityFile = IF st.cur.open THEN TrimQuotes(value) ELSE @,
                       !.prev = line]
     ELSE IF keyword = ToLower(kInclude)
       THEN IF ~FileExists(fs, value) \/ value \in st.visited
            THEN [st EXCEPT !.hosts = fin, !.cur = closed, !.prev = line]
            ELSE LET r == parseFile(fs, value, st.visited)
                 IN [st EXCEPT !.hosts = fin \o r.hosts, !.cur = closed, !.prev = line,
                               !.visited = r.visited]
     ELSE [st EXCEPT !.prev = line]

\* the body of the scanner loop for one line
scanStep(fs, path, line, lineNum, st) ==
  LET trimmed == TrimSpace(line)
      idx == IndexAnyBlank(trimmed)
      keyword == ToLower(SubSeq(trimmed, 1, idx))
      value == TrimSpace(SubSeq(trimmed, idx + 2, Len(trimmed)))
      fin == finalizeHost(st)
      closed == IF st.cur.open /\ st.cur.h.Alias # star
                THEN [open |-> FALSE, h |-> EmptyHost] ELSE st.cur
  IN IF trimmed = <<>> \/ HasPrefix(trimmed, <<"#">>) THEN [st EXCEPT !.prev = line]
     ELSE IF idx = -1 THEN [st EXCEPT !.prev = line]
     ELSE IF keyword = ToLower(kHost)
       THEN [st EXCEPT !.hosts = fin,
                       !.cur = [open |-> TRUE,
                                h |-> [EmptyHost EXCEPT !.Alias = value, !.SourceFile = path,
                                         !.Groups = parseMagicComment(st.prev),
                                         !.LineStart = lineNum]],
                       !.prev = line]
     ELSE IF keyword = ToLower(kHostname)
       THEN [st EXCEPT !.cur.h.Hostname = IF st.cur.open THEN value ELSE @, !.prev = line]
     ELSE IF keyword = ToLower(kUser)
       THEN [st EXCEPT !.cur.h.User = IF st.cur.open THEN value ELSE @, !.prev = line]
     ELSE IF keyword = ToLower(kPort)
       THEN [st EXCEPT !.cur.h.Port = IF st.cur.open THEN value ELSE @, !.prev = line]
     ELSE IF keyword = ToLower(kIdentityFile)
       THEN [st EXCEPT !.cur.h.IdentityFile = IF st.cur.open THEN TrimQuotes(value) ELSE @,
                       !.prev = line]
     ELSE IF keyword = ToLower(kInclude)
       THEN IF ~FileExists(fs, value) \/ value \in st.visited
            THEN [st EXCEPT !.hosts = fin, !.cur = closed, !.prev = line]
            ELSE LET r == parseFile(fs, value, st.visited)
                 IN [st EXCEPT !.hosts = fin \o r.hosts, !.cur = closed, !.prev = line,
                               !.visited = r.visited]
     ELSE [st EXCEPT !.prev = line]

RECURSIVE scanLines(_, _, _, _, _)
\* the scanner loop with line numbers counted from 0
scanLinesFromZero(fs, path, lines, lineNum, st) ==
  IF lineNum > Len(lines) THEN st
  ELSE scanLines(fs, path, lines, lineNum + 1,
                 scanStep(fs, path, lines[lineNum], lineNum - 1, st))

scanLines(fs, path, lines, lineNum, st) ==
  IF lineNum > Len(lines) THEN st
  ELSE scanLines(fs, path, lines, lineNum + 1, scanStep(fs, path, lines[lineNum], lineNum, st))

\* parseFile working on a copy of the visited set: what it visits is
\* forgotten when it returns
parseFileCopyingVisited(fs, path, visited) ==
  IF ~FileExists(fs, path) THEN [err |-> TRUE, hosts |-> <<>>, visited |-> visited]
  ELSE IF path \in visited THEN [err |-> FALSE, hosts |-> <<>>, visited |-> visited]
  ELSE LET st == scanLines(fs, path, splitLines(fs[path].data), 1,
                           [hosts |-> <<>>, cur |-> [open |-> FALSE, h |-> EmptyHost],
                            prev |-> <<>>, visited |-> visited \cup {path}])
       IN [err |-> FALSE, hosts |-> finalizeHost(st), visited |-> visited]

parseFile(fs, path, visited) ==
  IF ~FileExists(fs, path) THEN [err |-> TRUE, hosts |-> <<>>, visited |-> visited]
  ELSE IF path \in visited THEN [err |-> FALSE, hosts |-> <<>>, visited |-> visited]
  ELSE LET st == scanLines(fs, path, splitLines(fs[path].data), 1,
                           [hosts |-> <<>>, cur |-> [open |-> FALSE, h |-> EmptyHost],
                            prev |-> <<>>, visited |-> visited \cup {path}])
       IN [err |-> FALSE, hosts |-> finalizeHost(st), visited |-> st.visited]

\* Parse failing when a file it is told to include is missing
ParseNeedingIncludes(fs, configPath) ==
  [parseFile(fs, configPath, {}) EXCEPT !.err = @ \/ ~FileExists(fs, <<"i">>)]

Parse(fs, configPath) == parseFile(fs, configPath, {})

\* ------------------------------------------------------------------------
\* internal/config/writer.go: AppendHost and ReplaceHostBlock
\* ------------------------------------------------------------------------

bakSuffix == <<".", "b", "a", "k">>

tmpSuffix == <<".", "t", "m", "p">>

File(data) == [exists |-> TRUE, data |-> data]

NoFile == [exists |-> FALSE, data |-> <<>>]

Prefix(data, n) == SubSeq(data, 1, IF n < Len(data) THEN n ELSE Len(data))

\* os.WriteFile(path, data): cut = -2 is success, cut = -1 a failed open (the
\* file is untouched), cut >= 0 a write that failed after cut bytes of the
\* truncated file were written
WriteFile(fs, path, data, cut) ==
  IF cut = -2 THEN [fs EXCEPT ![path] = File(data)]
  ELSE IF cut = -1 THEN fs
  ELSE [fs EXCEPT ![path] = File(Prefix(data, cut))]

\* the temporary file the new content is written to before the rename
tmpPathInPlace(sourceFile) == sourceFile

tmpPathOf(sourceFile) == sourceFile \o tmpSuffix

\* the 1-based line of the Host directive in the written file
newLineStartNoGroups(magicStart, h) == magicStart + 1

newLineStartOf(magicStart, h) == magicStart + 1 + (IF Len(h.Groups) > 0 THEN 1 ELSE 0)

\* positive when the block grew, negative when it shrank
lineDeltaFromHost(newBlockLines, blockEnd, magicStart) ==
  Len(newBlockLines) - (blockEnd - magicStart - 1)

lineDeltaOf(newBlockLines, blockEnd, magicStart) == Len(newBlockLines) - (blockEnd - magicStart)

Failure(fs, err) == [fs |-> fs, newLineStart |-> 0, lineDelta |-> 0, err |-> err]

\* the new content is written to the temporary file, which is then renamed
\* over the source file
writeAndRename(fs1, h, fault, tmpPath, output, newLineStart, lineDelta) ==
  IF fault.at = "tmp" THEN Failure(WriteFile(fs1, tmpPath, output, fault.cut), "tmp")
  ELSE IF fault.at = "rename" THEN Failure(WriteFile(fs1, tmpPath, output, -2), "rename")
  ELSE [fs |-> [p \in DOMAIN fs1 |-> IF p = h.SourceFile THEN File(output)
                                     ELSE IF p = tmpPath THEN NoFile ELSE fs1[p]],
        newLineStart |-> newLineStart,
        lineDelta |-> lineDelta,
        err |-> ""]

\* the joined lines, with the final newline of the original put back
withFinalNewline(raw, joined) ==
  IF Len(raw) > 0 /\ raw[Len(raw)] = "\n" /\ ~HasSuffix(joined, NL) THEN joined \o NL
  ELSE joined

\* lines[:magicStart], the new block and lines[blockEnd:] are put together
spliceBlock(fs1, h, fault, raw, lines, magicStart, blockEnd, newBlockLines) ==
  writeAndRename(fs1, h, fault, tmpPathOf(h.SourceFile),
                 withFinalNewline(raw, Join(Slice(lines, 0, magicStart) \o newBlockLines
                                            \o Slice(lines, blockEnd, Len(lines)), NL)),
                 newLineStartOf(magicStart, h),
                 lineDeltaOf(newBlockLines, blockEnd, magicStart))

\* the block's magic comment: the line above blockStart if it contains "@group"
magicStartOf(lines, blockStart) ==
  IF blockStart > 0 /\ Contains(At(lines, blockStart - 1), tagGroup) THEN blockStart - 1
  ELSE blockStart

\* the index of the block's Host line: start0, or start0 + 1 when start0 is a
\* line containing "@group" with a Host line below it; -1 for a stale reference
blockStartOf(lines, start0) ==
  IF IsHostLine(At(lines, start0)) THEN start0
  ELSE IF /\ Contains(At(lines, start0), tagGroup)
          /\ start0 + 1 < Len(lines)
          /\ IsHostLine(At(lines, start0 + 1)) THEN start0 + 1
  ELSE -1

replaceAt(fs1, h, fault, raw, lines, blockStart) ==
  IF blockStart = -1 THEN Failure(fs1, "stale")
  ELSE spliceBlock(fs1, h, fault, raw, lines, magicStartOf(lines, blockStart),
                   findBlockEnd(lines, blockStart), splitLines(buildHostBlock(h)))

replaceInLines(fs1, h, fault, raw, lines) ==
  IF h.LineStart - 1 < 0 \/ h.LineStart - 1 >= Len(lines) THEN Failure(fs1, "range")
  ELSE replaceAt(fs1, h, fault, raw, lines, blockStartOf(lines, h.LineStart - 1))

backupAndReplace(fs, h, fault, raw) ==
  IF fault.at = "bak"
    THEN Failure(WriteFile(fs, h.SourceFile \o bakSuffix, raw, fault.cut), "backup")
  ELSE replaceInLines(WriteFile(fs, h.SourceFile \o bakSuffix, raw, -2), h, fault, raw,
                      splitLines(raw))

\* fault names the I/O call that fails ("none", "read", "bak", "tmp",
\* "rename") and, for a write, how much of it reached the disk
ReplaceHostBlock(fs, h, fault) ==
  IF h.LineStart = 0 THEN Failure(fs, "zero")
  ELSE IF ~FileExists(fs, h.SourceFile) \/ fault.at = "read" THEN Failure(fs, "read")
  ELSE backupAndReplace(fs, h, fault, fs[h.SourceFile].data)

\* AppendHost with the backup taken after the block has been appended
AppendHostLateBackup(fs, configPath, backupPath, h, fault) ==
  IF fault.at = "read" THEN [fs |-> fs, err |-> "read"]
  ELSE
    LET original == IF FileExists(fs, configPath) THEN fs[configPath].data ELSE <<>>
        sep == IF Len(original) = 0 THEN <<>> ELSE NL
        text == sep \o buildHostBlock(h)
        written == original \o (IF fault.at = "write" THEN Prefix(text, fault.cut) ELSE text)
        fs1 == [fs EXCEPT ![configPath] = File(written)]
    IN IF fault.at \in {"bak", "open"} THEN [fs |-> fs, err |-> fault.at]
       ELSE [fs |-> WriteFile(fs1, backupPath, written, -2),
             err |-> IF fault.at = "write" THEN "write" ELSE ""]

\* AppendHost writing the separator whatever the file holds
AppendHostAlwaysSeparating(fs, configPath, backupPath, h, fault) ==
  IF fault.at = "read" THEN [fs |-> fs, err |-> "read"]
  ELSE
    LET original == IF FileExists(fs, configPath) THEN fs[configPath].data ELSE <<>>
        fs1 == WriteFile(fs, backupPath, original, IF fault.at = "bak" THEN fault.cut ELSE -2)
        text == NL \o buildHostBlock(h)
    IN IF fault.at = "bak" THEN [fs |-> fs1, err |-> "backup"]
       ELSE IF fault.at = "open" THEN [fs |-> fs1, err |-> "open"]
       ELSE IF fault.at = "write"
         THEN [fs |-> [fs1 EXCEPT ![configPath] = File(original \o Prefix(text, fault.cut))],
               err |-> "write"]
       ELSE [fs |-> [fs1 EXCEPT ![configPath] = File(original \o text)], err |-> ""]

\* fault.at is "none", "read", "bak", "open" or "write"; a failed append
\* write leaves cut bytes of the separator and block at the end of the file
AppendHost(fs, configPath, backupPath, h, fault) ==
  IF fault.at = "read" THEN [fs |-> fs, err |-> "read"]
  ELSE
    LET original == IF FileExists(fs, configPath) THEN fs[configPath].data ELSE <<>>
        fs1 == WriteFile(fs, backupPath, original, IF fault.at = "bak" THEN fault.cut ELSE -2)
        sep == IF Len(original) = 0 THEN <<>> ELSE NL
        text == sep \o buildHostBlock(h)
    IN IF fault.at = "bak" THEN [fs |-> fs1, err |-> "backup"]
       ELSE IF fault.at = "open" THEN [fs |-> fs1, err |-> "open"]
       ELSE IF fault.at = "write"
         THEN [fs |-> [fs1 EXCEPT ![configPath] = File(original \o Prefix(text, fault.cut))],
               err |-> "write"]
       ELSE [fs |-> [fs1 EXCEPT ![configPath] = File(original \o text)], err |-> ""]

\* ------------------------------------------------------------------------
\* Bounds and input sets
\* ------------------------------------------------------------------------

\* writer calls per behaviour of SpecCall
MaxOps == 1

\* bytes of a failed write that may have reached the disk: 0..MaxCut
MaxCut == 1

\* line_start values handed to ReplaceHostBlock directly: 0..MaxLineStart
MaxLineStart == 5

configPath == <<"c">>

includedPath == <<"i">>

backupPath == configPath \o bakSuffix

statePath == <<"s">>

otherPath == <<"o">>

AllPaths == {configPath, configPath \o bakSuffix, configPath \o tmpSuffix,
             includedPath, includedPath \o bakSuffix, includedPath \o tmpSuffix, otherPath,
             statePath, statePath \o tmpSuffix}

NoFault == [at |-> "none", cut |-> 0]

ReplaceFaults == {[at |-> "read", cut |-> 0], [at |-> "rename", cut |-> 0]}
                 \cup {[at |-> a, cut |-> c] : a \in {"bak", "tmp"}, c \in -1..MaxCut}

AppendFaults == {[at |-> "read", cut |-> 0], [at |-> "open", cut |-> 0]}
                \cup {[at |-> "bak", cut |-> c] : c \in -1..MaxCut}
                \cup {[at |-> "write", cut |-> c] : c \in 0..MaxCut}

Line(text) == text \o NL

HostLine(alias) == Line(kHost \o SP \o alias)

HostnameLine(v) == Line(IND4 \o kHostname \o SP \o v)

UserLine(v) == Line(IND4 \o kUser \o SP \o v)

GroupLine(v) == Line(magicPrefix \o v)

\* S4 of the specification: two blocks separated by a blank line
FileS4 == HostLine(<<"a">>) \o HostnameLine(<<"x">>) \o NL \o HostLine(<<"b">>) \o HostnameLine(<<"y">>)

\* magic comments, a wildcard block in the middle, no final newline
FileGroups == GroupLine(<<"W">>) \o HostLine(<<"a">>) \o HostnameLine(<<"x">>) \o UserLine(<<"u">>)
              \o HostLine(star) \o UserLine(<<"r">>) \o NL
              \o GroupLine(<<"P">>) \o HostLine(<<"b">>) \o IND4 \o kHostname \o SP \o <<"y">>

\* CRLF line ends, lower-case keywords, tab indentation, a default port
\* written out, a duplicate alias and a free comment
FileCRLF == <<"h","o","s","t"," ","a","\r","\n">>
            \o <<"\t","h","o","s","t","n","a","m","e"," ","x","\r","\n">>
            \o <<"\t","p","o","r","t"," ","2","2","\r","\n">>
            \o <<"#"," ","n","\r","\n">>
            \o <<"H","o","s","t"," ","a","\r","\n">>
            \o <<" ","H","o","s","t","n","a","m","e"," ","y","\r","\n">>

\* a value that contains "@group" on the line above a Host line, and an
\* Include of a second file at the end of the last block
FileAt == HostLine(<<"a">>) \o HostnameLine(<<"x">>) \o UserLine(<<"u">> \o tagGroup)
          \o HostLine(<<"b">>) \o HostnameLine(<<"y">>)
          \o Line(kInclude \o SP \o includedPath) \o HostLine(<<"d">>)

FileIncluded == HostLine(<<"c">>) \o HostnameLine(<<"z">>)

\* one block already in the writer's own format
FileOne == GroupLine(<<"W">>) \o HostLine(<<"a">>) \o HostnameLine(<<"x">>)
           \o Line(IND4 \o kPort \o SP \o <<"7">>)

\* a directive the model does not interpret, an unquoted identity file and
\* a final blank line
FileExtra == HostLine(<<"a">>) \o HostnameLine(<<"x">>)
             \o Line(IND4 \o <<"P","r","o","x","y","J","u","m","p"," ","j">>)
             \o Line(IND4 \o kIdentityFile \o SP \o <<"k">>) \o NL

MkFs(cfg, inc) ==
  [p \in AllPaths |-> IF p = configPath THEN cfg ELSE IF p = includedPath THEN inc ELSE NoFile]

InitialFs == {MkFs(File(FileS4), NoFile), MkFs(File(FileGroups), NoFile),
              MkFs(File(FileCRLF), NoFile), MkFs(File(FileAt), File(FileIncluded)),
              MkFs(File(FileOne), NoFile), MkFs(File(FileExtra), NoFile),
              MkFs(File(<<>>), NoFile), MkFs(NoFile, NoFile)}

MkHost(alias, hostname, user, port, identity, groups) ==
  [Alias |-> alias, Hostname |-> hostname, User |-> user, Port |-> port,
   IdentityFile |-> identity, Groups |-> groups, SourceFile |-> configPath, LineStart |-> 0]

\* the intended contents handed to the writer
EditChoices ==
  {MkHost(<<"a">>, <<"x">>, <<>>, port22, <<>>, <<>>),
   MkHost(<<"d">>, <<"w">>, <<"u">>, <<"7">>, <<"k">>, << <<"W">> >>),
   MkHost(<<"a">>, <<"x">>, <<>>, <<>>, <<>>, << <<"W">>, <<"P">> >>),
   MkHost(star, <<"x">>, <<>>, port22, <<>>, <<>>)}

\* the contents used in the calls that are made to fail or crash
FaultChoices ==
  {MkHost(<<"a">>, <<"x">>, <<>>, port22, <<>>, <<>>),
   MkHost(<<"d">>, <<"w">>, <<"u">>, <<"7">>, <<"k">>, << <<"W">> >>)}

\* ------------------------------------------------------------------------
\* internal/state and the construction of the interactive model
\* ------------------------------------------------------------------------

Ascii == <<" ", "\"", "#", "*", ",", "-", ".", "0", "1", "2", "3", "4", "5", "6", "7", "8", "9", "@">>
         \o UpperLetters \o LowerLetters

Ord(c) == CHOOSE i \in 1..Len(Ascii) : Ascii[i] = c

RECURSIVE StrLess(_, _)
\* Go's < on strings: byte-wise lexicographic order
StrLess(a, b) ==
  IF Len(b) = 0 THEN FALSE
  ELSE IF Len(a) = 0 THEN TRUE
  ELSE IF a[1] = b[1] THEN StrLess(Tail(a), Tail(b))
  ELSE Ord(a[1]) < Ord(b[1])

\* a stable sort under a strict weak order: an element's place is the number
\* of elements that sort before it, or tie with it and stand before it
StableSort(seq, less(_, _)) ==
  LET rank(i) == Cardinality({j \in 1..Len(seq) :
                    \/ less(seq[j], seq[i])
                    \/ (~less(seq[i], seq[j]) /\ j < i)}) + 1
  IN [k \in 1..Len(seq) |-> seq[CHOOSE i \in 1..Len(seq) : rank(i) = k]]

Count(connections, alias) == IF alias \in DOMAIN connections THEN connections[alias] ELSE 0

RecordConnection(connections, alias) ==
  [a \in DOMAIN connections \cup {alias} |-> Count(connections, a) + (IF a = alias THEN 1 ELSE 0)]

\* json.MarshalIndent(s): the document is held as the tuple of its two
\* fields, <<connections, first_run>>
Marshal(s) == <<s.Connections, s.FirstRun>>

\* a document without the connections field, as the tuple <<first_run>>
WithoutConnections(firstRun) == <<firstRun>>

\* file contents that are no JSON document of a State: the empty file and
\* a document cut short
Corrupted == {<<>>, <<"{", "\"", "c">>}

\* json.Unmarshal(data, s): fields that are absent keep their zero value
Unmarshal(data) ==
  IF Len(data) = 2 THEN [ok |-> TRUE, Connections |-> data[1], FirstRun |-> data[2], nil |-> FALSE]
  ELSE IF Len(data) = 1
    THEN [ok |-> TRUE, Connections |-> [a \in {} |-> 0], FirstRun |-> data[1], nil |-> TRUE]
  ELSE [ok |-> FALSE, Connections |-> [a \in {} |-> 0], FirstRun |-> FALSE, nil |-> TRUE]

\* Load: a missing file gives a new State with FirstRun set, any other read
\* error is returned (the State is then nil, here the zero State), a
\* corrupted file gives an empty State
Load(files, path, readFails) ==
  IF ~files[path].exists
    THEN [Connections |-> [a \in {} |-> 0], FirstRun |-> TRUE, err |-> ""]
  ELSE IF readFails THEN [Connections |-> [a \in {} |-> 0], FirstRun |-> FALSE, err |-> "read"]
  ELSE [Connections |-> Unmarshal(files[path].data).Connections,
        FirstRun |-> Unmarshal(files[path].data).FirstRun, err |-> ""]

\* Save: the directory is made, the state is written to path.tmp, which is
\* renamed over path; a failed rename removes the temporary file. A failed
\* write leaves the temporary file untouched (cut = -1) or incomplete.
Save(files, path, s, fault) ==
  IF fault.at = "mkdir" THEN files
  ELSE IF fault.at = "tmp"
    THEN IF fault.cut = -1 THEN files ELSE [files EXCEPT ![path \o tmpSuffix] = File(<<>>)]
  ELSE IF fault.at = "rename" THEN [files EXCEPT ![path \o tmpSuffix] = NoFile]
  ELSE [files EXCEPT ![path] = File(Marshal(s)), ![path \o tmpSuffix] = NoFile]

FrequentHosts(connections, hosts, n) ==
  LET candidates == SelectSeq(hosts, LAMBDA h : Count(connections, h.Alias) > 0)
      sorted == StableSort(candidates,
                           LAMBDA x, y : Count(connections, x.Alias) > Count(connections, y.Alias))
  IN IF n <= 0 \/ n >= Len(sorted) THEN sorted ELSE SubSeq(sorted, 1, n)

NoForm == [open |-> FALSE, original |-> EmptyHost, fields |-> <<>>, activeField |-> 0,
           statusMsg |-> ""]

\* strings.ToLower(remaining[i].Alias) < strings.ToLower(remaining[j].Alias)
aliasLess(x, y) == StrLess(ToLower(x.Alias), ToLower(y.Alias))

\* sort.Slice(remaining, less): the slice is left in some order that is
\* sorted under less; the order of elements that compare equal is not
\* specified, so every sorted arrangement is an outcome
sortSlice(remaining) ==
  LET n == Len(remaining)
      perms == {p \in [1..n -> 1..n] : \A i, j \in 1..n : i # j => p[i] # p[j]}
      arranged == {[k \in 1..n |-> remaining[p[k]]] : p \in perms}
  IN {s \in arranged : \A i, j \in 1..n : i < j => ~aliasLess(s[j], s[i])}

\* the hosts New leaves for the alphabetical part
remainingHosts(hosts, frequent) ==
  LET frequentSet == {<<frequent[i].Alias, frequent[i].SourceFile>> : i \in 1..Len(frequent)}
  IN SelectSeq(hosts, LAMBDA h : <<h.Alias, h.SourceFile>> \notin frequentSet)

\* the Model built from the two parts
newModel(frequent, sorted) ==
  [allHosts |-> frequent \o sorted, filtered |-> frequent \o sorted, cursor |-> 0,
   viewport |-> 0, viewHeight |-> 20, mode |-> "Normal", searchQuery |-> <<>>,
   edit |-> NoForm, statusMsg |-> "", firstRun |-> FALSE]

\* the Models New can return, one for each outcome of sort.Slice
New(hosts, connections) ==
  LET frequent == FrequentHosts(connections, hosts, Len(hosts))
  IN {newModel(frequent, sorted) : sorted \in sortSlice(remainingHosts(hosts, frequent))}

\* New with frequency ordering disabled: no host counts as frequent
NewNoFrequent(hosts) == New(hosts, [a \in {} |-> 0])

\* ------------------------------------------------------------------------
\* State
\* ------------------------------------------------------------------------

VARIABLES
  fs,       \* the files: path -> [exists, data]
  m,        \* the tui.Model value held by the event loop
  conns,    \* state.State.Connections: alias -> count
  inbox,    \* messages produced by commands and not yet delivered to Update
  last,     \* the latest writer call: its arguments, the files before it, its result
  nOps,     \* number of writer calls made so far
  ssh,      \* the state loaded at startup and the SSH clients run since: alias, exit ok
  pt        \* the passthrough invocation: its argv, its position in runPassthrough, its outcome

vars == <<fs, m, conns, inbox, last, nOps, ssh, pt>>

NoPassthrough == [pc |-> "idle", args |-> <<>>, runs |-> 0, pre |-> MkFs(NoFile, NoFile),
                  configPath |-> <<>>, hostname |-> <<>>,
                  target |-> [dest |-> <<>>, port |-> <<>>, user |-> <<>>, identity |-> <<>>],
                  known |-> FALSE, registered |-> "none", spawned |-> <<>>,
                  child |-> -1, exit |-> -1, diag |-> <<>>]

NoRuns == [loaded |-> [a \in {} |-> 0], runs |-> <<>>]

NoConns == [a \in {} |-> 0]

NoCall == [op |-> "none", pre |-> MkFs(NoFile, NoFile), hosts |-> <<>>, h |-> EmptyHost,
           fault |-> NoFault, crashed |-> FALSE,
           ret |-> [newLineStart |-> 0, lineDelta |-> 0, err |-> ""]]

Ret(r) == [newLineStart |-> r.newLineStart, lineDelta |-> r.lineDelta, err |-> r.err]

\* ------------------------------------------------------------------------
\* SpecCall: the writer's two operations applied to any file of InitialFs
\* and to everything they turn it into, with I/O failures and crashes
\* ------------------------------------------------------------------------

InitCall ==
  /\ fs \in InitialFs
  /\ m \in New(<<>>, NoConns)
  /\ conns = NoConns
  /\ inbox = <<>>
  /\ last = NoCall
  /\ nOps = 0
  /\ ssh = NoRuns
  /\ pt = NoPassthrough

ParsedNow == Parse(fs, configPath).hosts

\* the arguments a caller can pass: any line_start, with intended contents
\* from EditChoices or the contents the parser found at that line
CallArgs ==
  {[e EXCEPT !.LineStart = ls] : e \in EditChoices, ls \in 0..MaxLineStart}
  \cup {ParsedNow[i] : i \in 1..Len(ParsedNow)}

DoReplace(h, fault, crashed) ==
  \E r \in {ReplaceHostBlock(fs, h, fault)} :
     /\ nOps < MaxOps
     /\ ~last.crashed
     /\ fs' = r.fs
     /\ last' = [op |-> "replace", pre |-> fs, hosts |-> <<>>, h |-> h, fault |-> fault,
                 crashed |-> crashed, ret |-> Ret(r)]
     /\ nOps' = nOps + 1
     /\ UNCHANGED <<m, conns, inbox, ssh, pt>>

CallReplace == \E h \in CallArgs : DoReplace(h, NoFault, FALSE)

\* the calls that are made to fail or crash: on a block the parser found
FaultArgs ==
  {[e EXCEPT !.LineStart = ParsedNow[i].LineStart] : e \in FaultChoices, i \in 1..Len(ParsedNow)}

CallReplaceFault == \E h \in FaultArgs, f \in ReplaceFaults : DoReplace(h, f, FALSE)

\* the process dies inside ReplaceHostBlock: at a failing I/O call, between
\* two calls, or just before returning
CrashReplace == \E h \in FaultArgs, f \in ReplaceFaults \cup {NoFault} : DoReplace(h, f, TRUE)

DoAppend(h, fault, crashed) ==
  \E r \in {AppendHost(fs, configPath, backupPath, h, fault)} :
     /\ nOps < MaxOps
     /\ ~last.crashed
     /\ fs' = r.fs
     /\ last' = [op |-> "append", pre |-> fs, hosts |-> <<>>, h |-> h, fault |-> fault,
                 crashed |-> crashed,
                 ret |-> [newLineStart |-> 0, lineDelta |-> 0, err |-> r.err]]
     /\ nOps' = nOps + 1
     /\ UNCHANGED <<m, conns, inbox, ssh, pt>>

CallAppend == \E h \in EditChoices : DoAppend(h, NoFault, FALSE)

CallAppendFault == \E h \in FaultChoices, f \in AppendFaults : DoAppend(h, f, FALSE)

CrashAppend == \E h \in FaultChoices, f \in AppendFaults \cup {NoFault} : DoAppend(h, f, TRUE)

NextCall ==
  \/ CallReplace
  \/ CallReplaceFault
  \/ CrashReplace
  \/ CallAppend
  \/ CallAppendFault
  \/ CrashAppend

SpecCall == InitCall /\ [][NextCall]_vars

\* ------------------------------------------------------------------------
\* SpecParse: a configuration file written line by line, and parsed at any
\* point
\* ------------------------------------------------------------------------

\* lines of the configuration file of SpecParse
MaxFileLines == 4

\* the magic comments written, with the groups each one names
GroupComments ==
  {[line |-> magicPrefix \o <<"W">>, groups |-> << <<"W">> >>],
   [line |-> magicPrefix \o <<"V", ",", " ", "W">>, groups |-> << <<"V">>, <<"W">> >>]}

ParseLines ==
  {kHost \o SP \o <<"a">>, kHost \o SP \o <<"b">>, kHost \o SP \o star,
   IND4 \o kHostname \o SP \o <<"x">>, <<>>, kInclude \o SP \o includedPath,
   kInclude \o SP \o otherPath}
  \cup {c.line : c \in GroupComments}

\* a second included file
FileOther == HostLine(<<"e">>) \o HostnameLine(<<"v">>)

\* the included file including the configuration file back, and itself
FileCyclic == FileIncluded \o NL \o Line(kInclude \o SP \o configPath)
              \o Line(kInclude \o SP \o includedPath) \o HostLine(<<"f">>)

\* the files around the configuration file of SpecParse: the included file
\* is plain, part of an include cycle, or missing; the configuration file
\* itself may be missing
ParseInitialFs ==
  {[MkFs(File(<<>>), inc) EXCEPT ![otherPath] = File(FileOther)] :
     inc \in {File(FileIncluded), File(FileCyclic), NoFile}}
  \cup {[MkFs(NoFile, File(FileIncluded)) EXCEPT ![otherPath] = File(FileOther)]}

LineCount(data) == Len(SelectSeq(data, LAMBDA c : c = "\n"))

InitParse ==
  /\ fs \in ParseInitialFs
  /\ m \in New(<<>>, NoConns)
  /\ conns = NoConns
  /\ inbox = <<>>
  /\ last = NoCall
  /\ nOps = 0
  /\ ssh = NoRuns
  /\ pt = NoPassthrough

\* one more line is written to the configuration file
WriteLine ==
  /\ fs[configPath].exists
  /\ LineCount(fs[configPath].data) < MaxFileLines
  /\ \E l \in ParseLines : fs' = [fs EXCEPT ![configPath].data = @ \o Line(l)]
  /\ UNCHANGED <<m, conns, inbox, last, nOps, ssh, pt>>

\* config.Parse is applied to the file
ParseConfig ==
  /\ \E r \in {Parse(fs, configPath)} :
       last' = [NoCall EXCEPT !.op = "parse", !.pre = fs, !.hosts = r.hosts,
                              !.ret.err = IF r.err THEN "failed to open config" ELSE ""]
  /\ UNCHANGED <<fs, m, conns, inbox, nOps, ssh, pt>>

NextParse == WriteLine \/ ParseConfig

SpecParse == InitParse /\ [][NextParse]_vars

\* ------------------------------------------------------------------------
\* internal/tui: filtering and the handling of a saved edit
\* ------------------------------------------------------------------------

RECURSIVE IsSubsequence(_, _)
IsSubsequence(q, text) ==
  IF Len(q) = 0 THEN TRUE
  ELSE IF Len(text) = 0 THEN FALSE
  ELSE IF q[1] = text[1] THEN IsSubsequence(Tail(q), Tail(text))
  ELSE IsSubsequence(q, Tail(text))

Searchable(h) == h.Alias \o SP \o h.Hostname \o SP \o Join(h.Groups, SP)

FuzzyMatch(query, h) == IsSubsequence(ToLower(query), ToLower(Searchable(h)))

\* the filter re-computed with cursor and viewport left where they were
applySearchKeepingCursor(model) ==
  [model EXCEPT !.filtered = IF model.searchQuery = <<>> THEN model.allHosts
                             ELSE SelectSeq(model.allHosts,
                                            LAMBDA h : FuzzyMatch(model.searchQuery, h))]

\* re-compute filtered from the query and reset cursor and viewport
applySearch(model) ==
  [model EXCEPT !.filtered = IF model.searchQuery = <<>> THEN model.allHosts
                             ELSE SelectSeq(model.allHosts,
                                            LAMBDA h : FuzzyMatch(model.searchQuery, h)),
                !.cursor = 0,
                !.viewport = 0]

\* the index saveEditForm looks up: the first host of allHosts with the
\* form's source file and line start, -1 if there is none (0-based)
findIndex(allHosts, original) ==
  LET hits == {i \in 1..Len(allHosts) : /\ allHosts[i].SourceFile = original.SourceFile
                                        /\ allHosts[i].LineStart = original.LineStart}
  IN IF hits = {} THEN -1 ELSE SetMin(hits) - 1

\* the propagation rule without the line comparison: every other entry of
\* the edited file moves
shiftHostsWholeFile(allHosts, msg) ==
  [j \in 1..Len(allHosts) |->
     IF j = msg.index + 1 THEN msg.updated
     ELSE IF allHosts[j].SourceFile = msg.sourceFile
       THEN [allHosts[j] EXCEPT !.LineStart = @ + msg.lineDelta]
     ELSE allHosts[j]]

\* the propagation rule: the edited entry is replaced, the entries of the
\* same file below the edited block move by lineDelta
shiftHosts(allHosts, msg) ==
  [j \in 1..Len(allHosts) |->
     IF j = msg.index + 1 THEN msg.updated
     ELSE IF allHosts[j].SourceFile = msg.sourceFile
             /\ allHosts[j].LineStart > msg.originalLineStart
       THEN [allHosts[j] EXCEPT !.LineStart = @ + msg.lineDelta]
     ELSE allHosts[j]]

\* the handler leaving the list on screen as it was before the save
editSavedKeepingFiltered(model, msg) ==
  [model EXCEPT !.allHosts = shiftHosts(model.allHosts, msg),
                !.mode = "Normal", !.edit = NoForm, !.statusMsg = "Saved."]

\* Update on editSavedMsg
editSaved(model, msg) ==
  [applySearch([model EXCEPT !.allHosts = shiftHosts(model.allHosts, msg)])
     EXCEPT !.mode = "Normal", !.edit = NoForm, !.statusMsg = "Saved."]

\* savedMsg carrying the line the block had before the rewrite
savedMsgOldLine(allHosts, updated, r) ==
  [updated |-> updated,
   index |-> findIndex(allHosts, updated),
   lineDelta |-> r.lineDelta,
   originalLineStart |-> updated.LineStart,
   sourceFile |-> updated.SourceFile]

\* the message saveEditForm emits after a successful ReplaceHostBlock
savedMsg(allHosts, updated, r) ==
  [updated |-> [updated EXCEPT !.LineStart = r.newLineStart],
   index |-> findIndex(allHosts, updated),
   lineDelta |-> r.lineDelta,
   originalLineStart |-> updated.LineStart,
   sourceFile |-> updated.SourceFile]

\* ------------------------------------------------------------------------
\* SpecTrack: hosts parsed once, then edited in place any number of times,
\* each successful rewrite followed by the propagation rule
\* ------------------------------------------------------------------------

\* edits per behaviour of SpecTrack
MaxEdits == 2

InitTrack ==
  /\ fs \in {f \in InitialFs : FileExists(f, configPath)}
  /\ m \in New(Parse(fs, configPath).hosts, NoConns)
  /\ conns = NoConns
  /\ inbox = <<>>
  /\ last = NoCall
  /\ nOps = 0
  /\ ssh = NoRuns
  /\ pt = NoPassthrough

\* the form's host: the chosen contents at the place of the selected host
Edited(original, e) ==
  [e EXCEPT !.SourceFile = original.SourceFile, !.LineStart = original.LineStart]

DoTrackedEdit(i, e, fault) ==
  \E updated \in {Edited(m.allHosts[i], e)} :
  \E r \in {ReplaceHostBlock(fs, updated, fault)} :
     /\ nOps < MaxEdits
     /\ fs' = r.fs
     /\ m' = IF r.err = "" THEN editSaved(m, savedMsg(m.allHosts, updated, r)) ELSE m
     /\ last' = [op |-> "replace", pre |-> fs, hosts |-> m.allHosts, h |-> updated,
                 fault |-> fault, crashed |-> FALSE, ret |-> Ret(r)]
     /\ nOps' = nOps + 1
     /\ UNCHANGED <<conns, inbox, ssh, pt>>

TrackedEdit == \E i \in 1..Len(m.allHosts), e \in EditChoices : DoTrackedEdit(i, e, NoFault)

TrackedEditFails ==
  \E i \in 1..Len(m.allHosts), e \in FaultChoices, f \in ReplaceFaults : DoTrackedEdit(i, e, f)

NextTrack == TrackedEdit \/ TrackedEditFails

SpecTrack == InitTrack /\ [][NextTrack]_vars

\* ------------------------------------------------------------------------
\* Properties of the writer (checked under SpecCall)
\* ------------------------------------------------------------------------

\* the file the latest call was to change
Target == IF last.op = "replace" THEN last.h.SourceFile ELSE configPath

PreData == last.pre[Target].data

NowData == fs[Target].data

PreLines == splitLines(PreData)

NowLines == splitLines(NowData)

ReplaceReturned == last.op = "replace" /\ ~last.crashed

ReplaceSucceeded == ReplaceReturned /\ last.ret.err = ""

\* the 1-based line of the Host directive the call rewrote: line_start, or
\* the line below it when line_start is the magic comment
EditedHostLine == IF IsHostLine(PreLines[last.h.LineStart]) THEN last.h.LineStart
                  ELSE last.h.LineStart + 1

GroupShift == IF Len(last.h.Groups) > 0 THEN 1 ELSE 0

NewBlockLines == splitLines(buildHostBlock(last.h))

\* C6: on success new_line_start is the 1-based line of the rewritten
\* block's Host directive in the new file: the lines kept in front of the
\* block (magic_start of them), then the magic comment when the new host has
\* groups, then the Host line.
NewLineStartIsHostLine ==
  ReplaceSucceeded =>
    LET n == last.ret.newLineStart
        kept == n - 1 - GroupShift
    IN /\ n \in 1..Len(NowLines)
       /\ NowLines[n] = kHost \o SP \o last.h.Alias
       /\ kept >= 0
       /\ SubSeq(NowLines, 1, kept) = SubSeq(PreLines, 1, kept)
       /\ SubSeq(NowLines, kept + 1, kept + Len(NewBlockLines)) = NewBlockLines
       /\ kept \in {EditedHostLine - 1, EditedHostLine - 2}

NewLineStartWitness ==
  /\ ReplaceSucceeded
  /\ Len(last.h.Groups) > 0
  /\ last.ret.newLineStart = EditedHostLine + 1

\* C7: on success line_delta is the length of the new block minus the
\* length of the replaced span, and every Host directive below the edited
\* one stands line_delta lines further down in the new file.
LineDeltaMovesLaterHosts ==
  ReplaceSucceeded =>
    LET d == last.ret.lineDelta
        kept == last.ret.newLineStart - 1 - GroupShift
        later == {j \in (EditedHostLine + 1)..Len(PreLines) : IsHostLine(PreLines[j])}
        nextBlock == IF later = {} THEN Len(PreLines) + 1 ELSE SetMin(later)
    IN /\ \A j \in later : j + d \in 1..Len(NowLines) /\ NowLines[j + d] = PreLines[j]
       /\ {j \in (kept + Len(NewBlockLines) + 1)..Len(NowLines) : IsHostLine(NowLines[j])}
            = {j + d : j \in later}
       /\ \E blockEnd \in EditedHostLine..(nextBlock - 1) :
            d = Len(NewBlockLines) - (blockEnd - kept)

LineDeltaWitness ==
  /\ ReplaceSucceeded
  /\ last.ret.lineDelta < 0
  /\ \E j \in (EditedHostLine + 1)..Len(PreLines) : IsHostLine(PreLines[j])

\* C8: when replace_host_block returns an error the source file is as it
\* was before the call.
ErrorLeavesSourceUnchanged ==
  (ReplaceReturned /\ last.ret.err # "") => fs[Target] = last.pre[Target]

ErrorWitness ==
  /\ ReplaceReturned
  /\ last.ret.err = "tmp"
  /\ fs[Target \o tmpSuffix].exists
  /\ Len(PreData) > 0

\* C4: after an append_host or replace_host_block call that changed the
\* config file, the .bak sibling holds the bytes the config file had before
\* the call.
BackupHoldsPreCallBytes ==
  (last.op \in {"replace", "append"} /\ NowData # PreData) =>
    fs[Target \o bakSuffix].exists /\ fs[Target \o bakSuffix].data = PreData

BackupWitness ==
  /\ last.op = "append"
  /\ last.ret.err = ""
  /\ Len(PreData) > 0
  /\ NowData # PreData

\* C3: a crash during append_host or replace_host_block leaves the config
\* file with its bytes from before the call or with the fully updated bytes.
CrashLeavesOldOrNew ==
  last.crashed =>
    \/ NowData = PreData
    \/ last.op = "replace"
         /\ NowData = ReplaceHostBlock(last.pre, last.h, NoFault).fs[Target].data
    \/ last.op = "append"
         /\ NowData = AppendHost(last.pre, configPath, backupPath, last.h, NoFault).fs[Target].data

\* a comment line of the form "# @group ..."
IsGroupComment(line) ==
  LET trimmed == TrimSpace(line)
  IN HasPrefix(trimmed, <<"#">>) /\ HasPrefix(TrimSpace(SubSeq(trimmed, 2, Len(trimmed))), tagGroup)

\* C2: replace_host_block rewrites only the edited host's block. The lines
\* in front of the block's start (its Host line, or its own @group comment
\* directly above) and the lines from the next block's start on (the next
\* Host line, its @group comment and the blank lines in front of it) have
\* the same text in the rewritten file.
ReplaceKeepsOtherLines ==
  ReplaceSucceeded =>
    LET hl == EditedHostLine
        start == IF hl > 1 /\ IsGroupComment(PreLines[hl - 1]) THEN hl - 1 ELSE hl
        later == {j \in (hl + 1)..Len(PreLines) : IsHostLine(PreLines[j])}
        nextHost == SetMin(later)
        nextTop == IF nextHost - 1 > hl /\ IsGroupComment(PreLines[nextHost - 1])
                   THEN nextHost - 1 ELSE nextHost
        nextStart == SetMin({e \in (hl + 1)..nextTop :
                               \A j \in e..(nextTop - 1) : TrimSpace(PreLines[j]) = <<>>})
        tail == Len(PreLines) - nextStart + 1
    IN /\ SubSeq(NowLines, 1, start - 1) = SubSeq(PreLines, 1, start - 1)
       /\ later # {} =>
            /\ Len(NowLines) >= tail
            /\ SubSeq(NowLines, Len(NowLines) - tail + 1, Len(NowLines))
                 = SubSeq(PreLines, nextStart, Len(PreLines))

TrimIndent(line) ==
  LET keep == {i \in 1..Len(line) : line[i] \notin {" ", "\t"}}
  IN IF keep = {} THEN <<>> ELSE SubSeq(line, SetMin(keep), Len(line))

IsDefaultPortLine(line) ==
  EqualFold(parseHostLine(line).keyword, kPort) /\ parseHostLine(line).value = port22

\* the bytes with every line's indentation removed and "Port 22" lines left out
Canonical(data) ==
  LET pieces == Split(data, "\n")
      flat == [i \in 1..Len(pieces) |-> TrimIndent(pieces[i])]
  IN Join(SelectSeq(flat, LAMBDA l : ~IsDefaultPortLine(l)), NL)

IsIdentityWrite ==
  /\ ReplaceSucceeded
  /\ \E i \in 1..Len(Parse(last.pre, configPath).hosts) : Parse(last.pre, configPath).hosts[i] = last.h

\* C9: replace_host_block called with a host equal to one just parsed from
\* the file reproduces the file's bytes, up to indentation and the omission
\* of a default "Port 22" line.
IdentityWriteRoundTrip == IsIdentityWrite => Canonical(NowData) = Canonical(PreData)

\* ------------------------------------------------------------------------
\* Properties of tracked line numbers (checked under SpecTrack)
\* ------------------------------------------------------------------------

Positions(hosts) == {<<hosts[i].SourceFile, hosts[i].LineStart>> : i \in 1..Len(hosts)}

\* C1: after every successful replace_host_block followed by the
\* propagation rule, re-parsing the file yields hosts whose line_start
\* values are those tracked in memory.
LineStartFidelity ==
  LET parsed == Parse(fs, configPath).hosts
  IN /\ Len(parsed) = Len(m.allHosts)
     /\ Positions(parsed) = Positions(m.allHosts)

\* a saved edit: the latest writer call succeeded and its message was handled
EditWasSaved == last.op = "replace" /\ last.ret.err = "" /\ Len(last.hosts) > 0

\* 1-based index of the edited host in the list held before the edit
EditedIndex == findIndex(last.hosts, last.h) + 1

\* C5: when an edit is saved, the hosts other than the edited one whose
\* line_start changes are the hosts of the same source file whose line_start
\* was strictly greater than the edited host's, each moved by line_delta;
\* hosts of other files and hosts at smaller line numbers keep theirs, and
\* nothing but line_start changes in any of them.
OnlyLaterHostsShift ==
  EditWasSaved =>
    /\ Len(m.allHosts) = Len(last.hosts)
    /\ \A j \in 1..Len(last.hosts) :
         j # EditedIndex =>
           LET before == last.hosts[j]
               moves == /\ before.SourceFile = last.h.SourceFile
                        /\ before.LineStart > last.h.LineStart
           IN m.allHosts[j] = [before EXCEPT !.LineStart =
                                 IF moves THEN @ + last.ret.lineDelta ELSE @]

OnlyLaterHostsShiftWitness ==
  /\ EditWasSaved
  /\ last.ret.lineDelta # 0
  /\ \E j \in 1..Len(last.hosts) :
       /\ last.hosts[j].SourceFile = last.h.SourceFile
       /\ last.hosts[j].LineStart > last.h.LineStart
       /\ m.allHosts[j].LineStart = last.hosts[j].LineStart + last.ret.lineDelta
  /\ \E j \in 1..Len(last.hosts) :
       /\ last.hosts[j].SourceFile = last.h.SourceFile
       /\ last.hosts[j].LineStart < last.h.LineStart
  /\ \E j \in 1..Len(last.hosts) : last.hosts[j].SourceFile # last.h.SourceFile

\* ------------------------------------------------------------------------
\* internal/tui: key handling
\* ------------------------------------------------------------------------

max(a, b) == IF a > b THEN a ELSE b

\* moveCursorDown scrolling one row too late
moveCursorDownLate(model) ==
  IF Len(model.filtered) = 0 THEN model
  ELSE LET cursor == (model.cursor + 1) % Len(model.filtered)
       IN [model EXCEPT !.cursor = cursor,
                        !.viewport = IF cursor = 0 THEN 0
                                     ELSE IF cursor > model.viewport + model.viewHeight
                                       THEN cursor - model.viewHeight + 1
                                     ELSE @]

\* moveCursorUp without the wrap to the last row
moveCursorUpNoWrap(model) ==
  IF Len(model.filtered) = 0 THEN model
  ELSE LET cursor == model.cursor - 1
       IN [model EXCEPT !.cursor = cursor,
                        !.viewport = IF cursor = Len(model.filtered) - 1
                                       THEN max(0, Len(model.filtered) - model.viewHeight)
                                     ELSE IF cursor < model.viewport THEN cursor
                                     ELSE @]

moveCursorDown(model) ==
  IF Len(model.filtered) = 0 THEN model
  ELSE LET cursor == (model.cursor + 1) % Len(model.filtered)
       IN [model EXCEPT !.cursor = cursor,
                        !.viewport = IF cursor = 0 THEN 0
                                     ELSE IF cursor >= model.viewport + model.viewHeight
                                       THEN cursor - model.viewHeight + 1
                                     ELSE @]

moveCursorUp(model) ==
  IF Len(model.filtered) = 0 THEN model
  ELSE LET cursor == (model.cursor - 1 + Len(model.filtered)) % Len(model.filtered)
       IN [model EXCEPT !.cursor = cursor,
                        !.viewport = IF cursor = Len(model.filtered) - 1
                                       THEN max(0, Len(model.filtered) - model.viewHeight)
                                     ELSE IF cursor < model.viewport THEN cursor
                                     ELSE @]

\* the form's fields in order; activeField is a 0-based index into them
fieldNames == <<"alias", "hostname", "user", "port", "identity_file", "groups">>

fieldCount == Len(fieldNames)

fieldIndex(name) == (CHOOSE i \in 1..fieldCount : fieldNames[i] = name) - 1

FieldOf(form, name) == form.fields[fieldIndex(name) + 1]

\* the texts openEditForm puts into the fields for a host
formFields(host) ==
  <<host.Alias, host.Hostname, host.User, host.Port, host.IdentityFile,
    Join(host.Groups, <<",", " ">>)>>

\* openEditForm without the check of the line position
openEditFormAnyLine(model) ==
  IF Len(model.filtered) = 0 THEN [model EXCEPT !.statusMsg = "No host selected."]
  ELSE [model EXCEPT !.edit = [open |-> TRUE, original |-> model.filtered[model.cursor + 1],
                               fields |-> formFields(model.filtered[model.cursor + 1]),
                               activeField |-> fieldIndex("alias"), statusMsg |-> ""],
                     !.mode = "Edit"]

\* openEditForm that opens the form and leaves the mode as it is
openEditFormKeepMode(model) ==
  IF Len(model.filtered) = 0 THEN [model EXCEPT !.statusMsg = "No host selected."]
  ELSE LET host == model.filtered[model.cursor + 1]
       IN IF host.LineStart = 0
            THEN [model EXCEPT !.statusMsg = "Cannot edit: host has no tracked line position."]
          ELSE [model EXCEPT !.edit = [open |-> TRUE, original |-> host,
                                       fields |-> formFields(host),
                                       activeField |-> fieldIndex("alias"), statusMsg |-> ""]]

openEditForm(model) ==
  IF Len(model.filtered) = 0 THEN [model EXCEPT !.statusMsg = "No host selected."]
  ELSE LET host == model.filtered[model.cursor + 1]
       IN IF host.LineStart = 0
            THEN [model EXCEPT !.statusMsg = "Cannot edit: host has no tracked line position."]
          ELSE [model EXCEPT !.edit = [open |-> TRUE, original |-> host,
                                       fields |-> formFields(host),
                                       activeField |-> fieldIndex("alias"), statusMsg |-> ""],
                             !.mode = "Edit"]

\* what a key handler hands back: the model, the files and the connection
\* counts it leaves, the message its command will produce ("none" if there is
\* no command) and the writer call it made
NoMsg == [type |-> "none"]

QuitMsg == [type |-> "quit"]

Handled(model, files, connections, msg, call) ==
  [m |-> model, fs |-> files, conns |-> connections, msg |-> msg, call |-> call]

Same(model, files, connections) == Handled(model, files, connections, NoMsg, NoCall)

\* the command tea.ExecProcess(ssh.ConnectCmd(host, "")) hands to the runtime
ExecMsg(host) == [type |-> "exec", host |-> host]

\* with r the result of AppendHost for a host that is not known
appended(model, persisted, recorded, fault, host, r) ==
  Handled(model, r.fs, recorded, ExecMsg(host),
          [op |-> "append", pre |-> persisted, hosts |-> model.allHosts, h |-> host,
           fault |-> fault, crashed |-> FALSE,
           ret |-> [newLineStart |-> 0, lineDelta |-> 0, err |-> r.err]])

\* after the state was saved: a host with an unknown hostname is appended to
\* the configuration, and the SSH client is handed to the runtime
appendAndExec(model, persisted, recorded, fault, host) ==
  IF IsKnownHost(model.allHosts, host.Hostname)
    THEN Handled(model, persisted, recorded, ExecMsg(host), NoCall)
  ELSE appended(model, persisted, recorded, fault, host,
                AppendHost(persisted, configPath, backupPath, host, fault))

\* m.state: its Connections are handed along with the model, its FirstRun
\* is the model's field firstRun
StateOf(model, connections) == [Connections |-> connections, FirstRun |-> model.firstRun]

\* recording in the wrong order: the state is saved, then the connection
\* is counted
saveThenRecord(model, files, connections, fault, saveFault, host) ==
  appendAndExec(model, Save(files, statePath, StateOf(model, connections), saveFault),
                RecordConnection(connections, host.Alias), fault, host)

\* the connection is counted, then the state is saved, its error dropped
recordAndSave(model, files, connections, fault, saveFault, host) ==
  appendAndExec(model,
                Save(files, statePath,
                     StateOf(model, RecordConnection(connections, host.Alias)), saveFault),
                RecordConnection(connections, host.Alias), fault, host)

connectToSelected(model, files, connections, fault, saveFault) ==
  IF Len(model.filtered) = 0 THEN Same(model, files, connections)
  ELSE recordAndSave(model, files, connections, fault, saveFault,
                     model.filtered[model.cursor + 1])

\* the groups field split on commas, each piece trimmed, empty pieces dropped
parseGroups(text) ==
  LET pieces == Split(text, ",")
      trimmed == [i \in 1..Len(pieces) |-> TrimSpace(pieces[i])]
  IN SelectSeq(trimmed, LAMBDA g : g # <<>>)

\* the host the form describes: the original with the form's fields
formHost(form, alias, hostname, port) ==
  [form.original EXCEPT
     !.Alias = alias,
     !.Hostname = hostname,
     !.User = TrimSpace(FieldOf(form, "user")),
     !.Port = IF port = <<>> THEN port22 ELSE port,
     !.IdentityFile = TrimSpace(FieldOf(form, "identity_file")),
     !.Groups = parseGroups(FieldOf(form, "groups"))]

\* with r the result of ReplaceHostBlock(updated): a failure is shown in the
\* form, a success yields the command that emits editSavedMsg
saved(model, files, connections, fault, updated, r) ==
  Handled(IF r.err # "" THEN [model EXCEPT !.edit.statusMsg = "Save failed: " \o r.err]
          ELSE model,
          r.fs, connections,
          IF r.err # "" THEN NoMsg
          ELSE [type |-> "editSaved", body |-> savedMsg(model.allHosts, updated, r)],
          [op |-> "replace", pre |-> files, hosts |-> model.allHosts, h |-> updated,
           fault |-> fault, crashed |-> FALSE, ret |-> Ret(r)])

replaceAndReport(model, files, connections, fault, updated) ==
  saved(model, files, connections, fault, updated, ReplaceHostBlock(files, updated, fault))

\* validated without the check of the hostname
validatedAliasOnly(model, files, connections, fault, alias, hostname) ==
  IF alias = <<>>
    THEN Same([model EXCEPT !.edit.statusMsg = "Alias cannot be empty."], files, connections)
  ELSE replaceAndReport(model, files, connections, fault,
                        formHost(model.edit, alias, hostname,
                                 TrimSpace(FieldOf(model.edit, "port"))))

validated(model, files, connections, fault, alias, hostname) ==
  IF alias = <<>>
    THEN Same([model EXCEPT !.edit.statusMsg = "Alias cannot be empty."], files, connections)
  ELSE IF hostname = <<>>
    THEN Same([model EXCEPT !.edit.statusMsg = "Hostname cannot be empty."], files,
              connections)
  ELSE replaceAndReport(model, files, connections, fault,
                        formHost(model.edit, alias, hostname,
                                 TrimSpace(FieldOf(model.edit, "port"))))

saveEditForm(model, files, connections, fault) ==
  validated(model, files, connections, fault,
            TrimSpace(FieldOf(model.edit, "alias")),
            TrimSpace(FieldOf(model.edit, "hostname")))

\* a key: its name as Msg.String() gives it, "runes" with the rune for the rest
handleNormalMode(model, files, connections, key, fault, saveFault) ==
  CASE key.name \in {"esc", "ctrl+c"} -> Handled(model, files, connections, QuitMsg, NoCall)
    [] key.name = "down" -> Same(moveCursorDown(model), files, connections)
    [] key.name = "up" -> Same(moveCursorUp(model), files, connections)
    [] key.name = "enter" -> connectToSelected(model, files, connections, fault, saveFault)
    [] key.name = "ctrl+e" -> Same(openEditForm(model), files, connections)
    [] key.name = "runes" ->
         Same(applySearch([model EXCEPT !.mode = "Search", !.searchQuery = <<key.rune>>]),
              files, connections)
    [] OTHER -> Same(model, files, connections)

handleSearchMode(model, files, connections, key, fault, saveFault) ==
  CASE key.name \in {"esc", "ctrl+w"} ->
         Same([applySearch([model EXCEPT !.searchQuery = <<>>]) EXCEPT !.mode = "Normal"],
              files, connections)
    [] key.name = "enter" -> connectToSelected(model, files, connections, fault, saveFault)
    [] key.name = "down" -> Same(moveCursorDown(model), files, connections)
    [] key.name = "up" -> Same(moveCursorUp(model), files, connections)
    [] key.name = "ctrl+c" -> Handled(model, files, connections, QuitMsg, NoCall)
    [] key.name = "ctrl+e" -> Same(openEditForm(model), files, connections)
    [] key.name = "backspace" ->
         IF Len(model.searchQuery) = 0
           THEN Same([model EXCEPT !.mode = "Normal"], files, connections)
         ELSE LET shorter == SubSeq(model.searchQuery, 1, Len(model.searchQuery) - 1)
                  searched == applySearch([model EXCEPT !.searchQuery = shorter])
              IN Same([searched EXCEPT !.mode = IF Len(shorter) = 0 THEN "Normal" ELSE @],
                      files, connections)
    [] key.name = "runes" ->
         Same(applySearch([model EXCEPT !.searchQuery = @ \o <<key.rune>>]), files, connections)
    [] OTHER -> Same(model, files, connections)

handleEditMode(model, files, connections, key, fault) ==
  LET form == model.edit
      active == form.activeField + 1
      text == form.fields[active]
      withText(t) == [model EXCEPT !.edit.fields[active] = t, !.edit.statusMsg = ""]
  IN CASE key.name = "esc" ->
            Same([model EXCEPT !.edit = NoForm, !.mode = "Normal"], files, connections)
       [] key.name = "ctrl+c" -> Handled(model, files, connections, QuitMsg, NoCall)
       [] key.name = "down" ->
            Same([model EXCEPT !.edit.activeField = (@ + 1) % fieldCount], files, connections)
       [] key.name = "up" ->
            Same([model EXCEPT !.edit.activeField = (@ - 1 + fieldCount) % fieldCount],
                 files, connections)
       [] key.name = "backspace" ->
            Same(withText(IF Len(text) > 0 THEN SubSeq(text, 1, Len(text) - 1) ELSE text),
                 files, connections)
       [] key.name = "ctrl+u" -> Same(withText(<<>>), files, connections)
       [] key.name = "enter" -> saveEditForm(model, files, connections, fault)
       [] key.name = "runes" -> Same(withText(text \o <<key.rune>>), files, connections)
       [] OTHER -> Same(model, files, connections)

handleKey(model, files, connections, key, fault, saveFault) ==
  CASE model.mode = "Normal" ->
         handleNormalMode(model, files, connections, key, fault, saveFault)
    [] model.mode = "Search" ->
         handleSearchMode(model, files, connections, key, fault, saveFault)
    [] model.mode = "Edit" -> handleEditMode(model, files, connections, key, fault)

\* Update on tea.WindowSizeMsg
resize(model, height) == [model EXCEPT !.viewHeight = max(height - 3, 1)]

\* ------------------------------------------------------------------------
\* Spec: the event loop. The model is built from the parsed configuration,
\* then keys, window sizes and the messages of finished commands reach Update
\* in any order.
\* ------------------------------------------------------------------------

\* saves per behaviour
MaxSaves == 1

\* connections recorded per behaviour
MaxConnects == 1

\* length of the search query
MaxQuery == 1

\* length of a form field the user types into
MaxField == 1

\* the runes typed into the search query, and those typed into a form field
Runes == {"b", "q"}

FormRunes == {"b"}

Heights == {0, 5}

SaveFaults == {NoFault, [at |-> "rename", cut |-> 0]}

InitConns == {NoConns, [a \in {<<"b">>} |-> 1]}

\* the files at startup: a configuration, and the state file of earlier runs
WithState(files, connections) ==
  [files EXCEPT ![statePath] =
     IF connections = NoConns THEN NoFile
     ELSE File(Marshal([Connections |-> connections, FirstRun |-> FALSE]))]

InitFiles ==
  {WithState(f, c) : f \in {MkFs(File(FileAt), File(FileIncluded)),
                            MkFs(File(FileGroups), NoFile)},
                     c \in InitConns}

\* the failures of state.Save: of the directory, of the write of the
\* temporary file, of the rename
PersistFaults == {[at |-> "mkdir", cut |-> 0], [at |-> "tmp", cut |-> -1],
                  [at |-> "tmp", cut |-> 0], [at |-> "rename", cut |-> 0]}

RECURSIVE SumCounts(_, _)
SumCounts(connections, aliases) ==
  IF aliases = {} THEN 0
  ELSE LET a == CHOOSE x \in aliases : TRUE
       IN connections[a] + SumCounts(connections, aliases \ {a})

\* main: the State loaded from the state file, an empty State when Load
\* returns an error
startState(files) ==
  IF Load(files, statePath, FALSE).err # ""
    THEN [Connections |-> NoConns, FirstRun |-> FALSE, err |-> ""]
  ELSE Load(files, statePath, FALSE)

Init ==
  /\ fs \in InitFiles
  /\ conns = startState(fs).Connections
  /\ m \in {[x EXCEPT !.firstRun = startState(fs).FirstRun] :
              x \in New(Parse(fs, configPath).hosts, conns)}
  /\ inbox = <<>>
  /\ last = NoCall
  /\ nOps = 0
  /\ ssh = [loaded |-> conns, runs |-> <<>>]
  /\ pt = NoPassthrough

\* the program runs until a quit command was issued
Running == \A i \in 1..Len(inbox) : inbox[i].type # "quit"

Key(name) == [name |-> name, rune |-> ""]

\* Update on tea.KeyMsg, with the I/O failures the handler meets
PressWith(key, fault, saveFault) ==
  \E r \in {handleKey(m, fs, conns, key, fault, saveFault)} :
     /\ Running
     /\ m' = r.m
     /\ fs' = r.fs
     /\ conns' = r.conns
     /\ inbox' = IF r.msg.type = "none" THEN inbox ELSE Append(inbox, r.msg)
     /\ last' = IF r.call.op = "none" THEN last ELSE r.call
     /\ nOps' = IF r.call.op = "none" THEN nOps ELSE nOps + 1
     /\ UNCHANGED <<ssh, pt>>

Press(key, fault) == PressWith(key, fault, NoFault)

\* connections made since startup
Connects == SumCounts(conns, DOMAIN conns) - SumCounts(ssh.loaded, DOMAIN ssh.loaded)

\* the fields the user changes
TypedFields == {"alias", "hostname", "groups"}

\* the user changes one field of the form at a time, one of TypedFields, and
\* types nothing into the form while a save is on its way
OthersUntouched ==
  /\ inbox = <<>>
  /\ fieldNames[m.edit.activeField + 1] \in TypedFields
  /\ \A k \in 1..fieldCount :
       k # m.edit.activeField + 1 => m.edit.fields[k] = formFields(m.edit.original)[k]

KeyDown == Press(Key("down"), NoFault)

KeyUp == Press(Key("up"), NoFault)

\* a session saves edits or makes connections
KeyEnter ==
  /\ m.mode = "Edit" => nOps < MaxSaves
  /\ m.mode # "Edit" => Connects < MaxConnects /\ nOps = 0
  /\ \E fault \in SaveFaults :
       \E saveFault \in IF m.mode = "Edit" THEN {NoFault} ELSE PersistFaults \cup {NoFault} :
          PressWith(Key("enter"), fault, saveFault)

KeyEsc == Press(Key("esc"), NoFault)

KeyCtrlC == Press(Key("ctrl+c"), NoFault)

\* the editor is opened while a save is still to come
KeyCtrlE ==
  /\ nOps < MaxSaves
  /\ Connects = 0
  /\ Press(Key("ctrl+e"), NoFault)

KeyCtrlW == Press(Key("ctrl+w"), NoFault)

KeyCtrlU ==
  /\ m.mode = "Edit" => OthersUntouched
  /\ Press(Key("ctrl+u"), NoFault)

KeyBackspace ==
  /\ m.mode = "Edit" => OthersUntouched
  /\ Press(Key("backspace"), NoFault)

KeyRunes ==
  /\ m.mode = "Search" => Len(m.searchQuery) < MaxQuery
  /\ m.mode = "Edit" => OthersUntouched /\ Len(m.edit.fields[m.edit.activeField + 1]) < MaxField
  /\ \E c \in IF m.mode = "Edit" THEN FormRunes ELSE Runes :
       Press([name |-> "runes", rune |-> c], NoFault)

WindowSize ==
  /\ Running
  /\ \E height \in Heights : m' = resize(m, height)
  /\ UNCHANGED <<fs, conns, inbox, last, nOps, ssh, pt>>

\* the inbox without its i-th message
Without(msgs, i) == SubSeq(msgs, 1, i - 1) \o SubSeq(msgs, i + 1, Len(msgs))

\* the message of a finished save command reaches Update
EditSavedAt(i) ==
  /\ Running
  /\ inbox[i].type = "editSaved"
  /\ m' = editSaved(m, inbox[i].body)
  /\ inbox' = Without(inbox, i)
  /\ UNCHANGED <<fs, conns, last, nOps, ssh, pt>>

EditSaved == \E i \in 1..Len(inbox) : EditSavedAt(i)

\* the runtime runs the SSH client of a connect command; the client exits
\* with status 0 or not, and the callback's nil message changes nothing
ExecProcessAt(i) ==
  /\ Running
  /\ inbox[i].type = "exec"
  /\ \E ok \in BOOLEAN :
       ssh' = [ssh EXCEPT !.runs = Append(@, [alias |-> inbox[i].host.Alias, ok |-> ok])]
  /\ inbox' = Without(inbox, i)
  /\ UNCHANGED <<fs, m, conns, last, nOps, pt>>

ExecProcess == \E i \in 1..Len(inbox) : ExecProcessAt(i)

Next ==
  \/ KeyDown
  \/ KeyUp
  \/ KeyEnter
  \/ KeyEsc
  \/ KeyCtrlC
  \/ KeyCtrlE
  \/ KeyCtrlW
  \/ KeyCtrlU
  \/ KeyBackspace
  \/ KeyRunes
  \/ WindowSize
  \/ EditSaved
  \/ ExecProcess

Spec == Init /\ [][Next]_vars

\* ------------------------------------------------------------------------
\* Properties of the interactive model (checked under Spec)
\* ------------------------------------------------------------------------

\* C10: in every state of the model, whatever keys, filter changes, saved
\* edits and window sizes came before, the cursor is on screen:
\* viewport <= cursor < viewport + view_height.
CursorOnScreen ==
  /\ m.viewport <= m.cursor
  /\ m.cursor < m.viewport + m.viewHeight

\* C11: from a state where viewport <= cursor < viewport + view_height, a
\* cursor-down or cursor-up on a non-empty filtered list, wrap-around at
\* either end included, leads to a state where it still holds.
CursorMovesKeepCursorOnScreen ==
  [][(/\ CursorOnScreen
      /\ Len(m.filtered) > 0
      /\ m.mode \in {"Normal", "Search"}
      /\ (KeyDown \/ KeyUp)) => CursorOnScreen']_vars

\* a list longer than the window was scrolled by cursor moves: the cursor is
\* on the last visible row, the first rows are off screen
CursorMovesWitness ==
  /\ m.viewport > 0
  /\ m.viewHeight < Len(m.filtered)
  /\ m.cursor = m.viewport + m.viewHeight - 1

\* C12: in every state the cursor is an index into filtered when filtered
\* is non-empty, and is 0 when filtered is empty.
CursorInRange ==
  IF Len(m.filtered) = 0 THEN m.cursor = 0
  ELSE 0 <= m.cursor /\ m.cursor < Len(m.filtered)

\* the cursor went up from the first row to the last one, and a search that
\* matches nothing left the list empty
CursorInRangeWitness ==
  \/ /\ Len(m.filtered) > 1
     /\ m.cursor = Len(m.filtered) - 1
     /\ m.viewport = 0
     /\ m.viewHeight > Len(m.filtered)
  \/ /\ Len(m.filtered) = 0
     /\ m.mode = "Search"

\* C13: the mode changes only along these transitions: Normal to Search on
\* a printable rune, the query becoming exactly that rune; Search to Normal
\* on Esc or Ctrl+W with the query cleared, or on a Backspace that leaves the
\* query empty; Normal or Search to Edit on Ctrl+E; Edit to Normal on Esc or
\* on a successful save. Nothing else changes the mode.
ModeChangesOnlyAlongTransitions ==
  [][m'.mode # m.mode =>
       \/ /\ m.mode = "Normal"
          /\ m'.mode = "Search"
          /\ \E c \in Runes : /\ Press([name |-> "runes", rune |-> c], NoFault)
                               /\ m'.searchQuery = <<c>>
       \/ /\ m.mode = "Search"
          /\ m'.mode = "Normal"
          /\ KeyEsc \/ KeyCtrlW \/ KeyBackspace
          /\ m'.searchQuery = <<>>
       \/ /\ m.mode \in {"Normal", "Search"}
          /\ m'.mode = "Edit"
          /\ KeyCtrlE
       \/ /\ m.mode = "Edit"
          /\ m'.mode = "Normal"
          /\ KeyEsc \/ EditSaved]_vars

\* the form's alias or hostname is empty once trimmed
FormInvalid ==
  \/ TrimSpace(FieldOf(m.edit, "alias")) = <<>>
  \/ TrimSpace(FieldOf(m.edit, "hostname")) = <<>>

\* C14: when Enter is pressed in Edit mode and the trimmed alias or hostname
\* is empty, or replace_host_block fails, the model stays in Edit mode with
\* the form open and a non-empty form status message, and all_hosts is
\* unchanged; on a validation failure no file is written and
\* replace_host_block is not called.
FailedSaveKeepsFormOpen ==
  [][\A f \in SaveFaults :
       (m.mode = "Edit" /\ Press(Key("enter"), f)) =>
         /\ FormInvalid => fs' = fs /\ nOps' = nOps /\ last' = last
         /\ (FormInvalid \/ (nOps' # nOps /\ last'.ret.err # "")) =>
              /\ m'.mode = "Edit"
              /\ m'.edit.open
              /\ m'.edit.statusMsg # ""
              /\ m'.edit.original = m.edit.original
              /\ m'.edit.fields = m.edit.fields
              /\ m'.allHosts = m.allHosts
              /\ inbox' = inbox]_vars

\* a save failed in replace_host_block after the backup and the temp file
\* were written: the form is open and shows the failure
FailedSaveWitness ==
  /\ m.mode = "Edit"
  /\ m.edit.open
  /\ m.edit.statusMsg # ""
  /\ last.op = "replace"
  /\ last.ret.err # ""
  /\ fs # last.pre

\* the host the open form describes, at line ls
FormValues(ls) ==
  [Alias |-> TrimSpace(FieldOf(m.edit, "alias")),
   Hostname |-> TrimSpace(FieldOf(m.edit, "hostname")),
   User |-> TrimSpace(FieldOf(m.edit, "user")),
   Port |-> IF TrimSpace(FieldOf(m.edit, "port")) = <<>> THEN port22
            ELSE TrimSpace(FieldOf(m.edit, "port")),
   IdentityFile |-> TrimSpace(FieldOf(m.edit, "identity_file")),
   Groups |-> parseGroups(FieldOf(m.edit, "groups")),
   SourceFile |-> m.edit.original.SourceFile,
   LineStart |-> ls]

\* Enter in Edit mode made replace_host_block succeed
SaveSucceeds ==
  /\ m.mode = "Edit"
  /\ \E f \in SaveFaults : Press(Key("enter"), f)
  /\ nOps' # nOps
  /\ last'.ret.err = ""

\* C15: after a successful save the model is in Normal mode with no edit
\* form, and the edited host's entry in all_hosts carries the form's field
\* values and the new_line_start that replace_host_block returned: the save
\* emits exactly these for the entry of the form's host, and the delivery of
\* the save's message puts them there.
SavedHostIsUpdated ==
  [][/\ SaveSucceeds =>
          /\ Len(inbox') = Len(inbox) + 1
          /\ LET msg == inbox'[Len(inbox')]
             IN /\ msg.type = "editSaved"
                /\ msg.body.updated = FormValues(last'.ret.newLineStart)
                /\ msg.body.index \in 0..(Len(m.allHosts) - 1)
                /\ m.allHosts[msg.body.index + 1] = m.edit.original
     /\ \A i \in 1..Len(inbox) :
          EditSavedAt(i) =>
            /\ m'.mode = "Normal"
            /\ ~m'.edit.open
            /\ Len(m'.allHosts) = Len(m.allHosts)
            /\ m'.allHosts[inbox[i].body.index + 1] = inbox[i].body.updated]_vars

\* a save that added or removed the group comment was delivered: the entry
\* of the edited host has new groups and a new line_start
SavedHostWitness ==
  /\ m.mode = "Normal"
  /\ m.statusMsg = "Saved."
  /\ inbox = <<>>
  /\ last.op = "replace"
  /\ last.ret.err = ""
  /\ last.ret.newLineStart # last.h.LineStart
  /\ \E j \in 1..Len(m.allHosts) :
       /\ m.allHosts[j] = [last.h EXCEPT !.LineStart = last.ret.newLineStart]
       /\ last.hosts[j].Groups # m.allHosts[j].Groups
       /\ last.hosts[j].LineStart = last.h.LineStart

\* C16: in every state the edit form is present if and only if the mode is
\* Edit.
FormPresentIffEditMode == m.edit.open <=> m.mode = "Edit"

\* the form is open in Edit mode and the user has changed a field
FormPresentWitness ==
  /\ m.mode = "Edit"
  /\ m.edit.open
  /\ m.edit.fields # formFields(m.edit.original)

\* C17: on Connect with a non-empty filtered list the selected alias's count
\* is recorded and the state is persisted, with the new count in it, before
\* the SSH client is launched; the client is launched even if persisting
\* the state fails, the state file then staying as it was.
RecordPersistThenLaunch ==
  [][/\ \A f \in SaveFaults, pf \in PersistFaults \cup {NoFault} :
          (/\ m.mode # "Edit"
           /\ Len(m.filtered) > 0
           /\ PressWith(Key("enter"), f, pf)) =>
             /\ \A a \in DOMAIN conns \cup {m.filtered[m.cursor + 1].Alias} :
                  /\ a \in DOMAIN conns'
                  /\ conns'[a] = Count(conns, a)
                                  + (IF a = m.filtered[m.cursor + 1].Alias THEN 1 ELSE 0)
             /\ pf = NoFault => fs'[statePath] = File(<<conns', m.firstRun>>)
             /\ pf # NoFault => fs'[statePath] = fs[statePath]
             /\ inbox' = Append(inbox, [type |-> "exec", host |-> m.filtered[m.cursor + 1]])
     /\ \A i \in 1..Len(inbox) :
          ExecProcessAt(i) =>
            Count(conns, inbox[i].host.Alias) > Count(ssh.loaded, inbox[i].host.Alias)]_vars

\* an SSH client ran although the state could not be persisted: the count is
\* in memory and not in the state file
LaunchedUnpersistedWitness ==
  /\ Len(ssh.runs) > 0
  /\ Count(conns, ssh.runs[1].alias) = Count(ssh.loaded, ssh.runs[1].alias) + 1
  /\ Count(Load(fs, statePath, FALSE).Connections, ssh.runs[1].alias)
       = Count(ssh.loaded, ssh.runs[1].alias)

\* the SSH clients that were run for an alias and exited with status 0
Successes(alias) == {i \in 1..Len(ssh.runs) : ssh.runs[i].alias = alias /\ ssh.runs[i].ok}

\* C18: an alias's frequency count equals the number of successful
\* connections made to it (on top of the count loaded at startup), once every
\* launched client has finished.
CountEqualsSuccessfulConnections ==
  (\A i \in 1..Len(inbox) : inbox[i].type # "exec") =>
    \A a \in DOMAIN conns :
       conns[a] = Count(ssh.loaded, a) + Cardinality(Successes(a))

\* ------------------------------------------------------------------------
\* Properties of the parser (checked under SpecParse)
\* ------------------------------------------------------------------------

\* the lines of the file a parsed host came from, as they were when parsed
ParsedLines(h) == Split(last.pre[h.SourceFile].data, "\n")

\* the groups named by the line above line n of lines, none if that line is
\* not a magic comment or n is the first line
GroupsAbove(lines, n) ==
  IF n > 1 /\ \E c \in GroupComments : c.line = lines[n - 1]
  THEN (CHOOSE c \in GroupComments : c.line = lines[n - 1]).groups
  ELSE <<>>

\* C19: a parsed host's groups are those of a @group magic comment on the
\* line immediately above its own Host directive, in its own file; a comment
\* further up, separated by a blank line or by another block, gives it
\* nothing, and a host without such a line above it has no groups.
GroupsOnlyFromPrecedingLine ==
  last.op = "parse" =>
    \A k \in 1..Len(last.hosts) :
       last.hosts[k].Groups = GroupsAbove(ParsedLines(last.hosts[k]), last.hosts[k].LineStart)

\* a first block, a blank line, a magic comment, a second block: the first
\* host has no groups, the second has the comment's
GroupsWitness ==
  /\ last.op = "parse"
  /\ Len(last.hosts) = 2
  /\ last.hosts[1].Groups = <<>>
  /\ last.hosts[2].Groups # <<>>
  /\ last.hosts[2].LineStart = last.hosts[1].LineStart + 3
  /\ ParsedLines(last.hosts[1])[last.hosts[1].LineStart + 1] = <<>>

\* the Host directives of the parsed configuration file that do not name
\* the wildcard, as <<line number, alias>> in file order
HostDirectives ==
  LET lines == Split(last.pre[configPath].data, "\n")
      isHost(n) == /\ HasPrefix(lines[n], kHost \o SP)
                   /\ SubSeq(lines[n], Len(kHost) + 2, Len(lines[n])) # star
      at == SelectSeq([n \in 1..Len(lines) |-> n], isHost)
  IN [k \in 1..Len(at) |-> <<at[k], SubSeq(lines[at[k]], Len(kHost) + 2, Len(lines[at[k]]))>>]

\* the parsed hosts of the configuration file itself, as <<line_start, alias>>
ParsedDirectives ==
  LET own == SelectSeq(last.hosts, LAMBDA h : h.SourceFile = configPath)
  IN [k \in 1..Len(own) |-> <<own[k].LineStart, own[k].Alias>>]

\* C20: the Host blocks of a file, blocks that share an alias included, are
\* returned one entry per block with the block's own line_start, in file
\* order: none is merged, dropped or reordered (wildcard blocks apart, which
\* are never returned).
DuplicateBlocksKept ==
  last.op = "parse" => ParsedDirectives = HostDirectives

\* two blocks with the same alias were parsed into two entries
DuplicateBlocksWitness ==
  /\ last.op = "parse"
  /\ \E j, k \in 1..Len(last.hosts) :
       /\ j < k
       /\ last.hosts[j].Alias = last.hosts[k].Alias
       /\ last.hosts[j].SourceFile = last.hosts[k].SourceFile
       /\ last.hosts[j].LineStart < last.hosts[k].LineStart
       /\ last.hosts[j].Hostname # last.hosts[k].Hostname

\* the lines of a file as they were when Parse was applied
LinesOf(path) == Split(last.pre[path].data, "\n")

\* line n of the file at path is a Host directive whose value is alias
IsHostDirective(path, n, alias) ==
  /\ n >= 1
  /\ n <= Len(LinesOf(path))
  /\ TrimSpace(LinesOf(path)[n]) = kHost \o SP \o alias

\* C21: for every host returned by Parse, line_start >= 1 and the line with
\* that number in its source_file, counted within that file also when the
\* file was included, is the Host directive whose value is the host's alias,
\* not a magic comment above it.
ParsedLineStartIsHostDirective ==
  last.op = "parse" =>
    \A k \in 1..Len(last.hosts) :
       IsHostDirective(last.hosts[k].SourceFile, last.hosts[k].LineStart, last.hosts[k].Alias)

\* a host under a magic comment and a host of an included file were parsed
ParsedLineStartWitness ==
  /\ last.op = "parse"
  /\ \E j, k \in 1..Len(last.hosts) :
       /\ last.hosts[j].SourceFile = configPath
       /\ last.hosts[j].Groups # <<>>
       /\ last.hosts[j].LineStart > 2
       /\ last.hosts[k].SourceFile = includedPath
       /\ last.hosts[k].LineStart > 1

\* C22: a Host * block never appears in the output of Parse, wherever it
\* stands in the file.
WildcardNeverParsed ==
  last.op = "parse" => \A k \in 1..Len(last.hosts) : last.hosts[k].Alias # star

\* a file with a Host * block after another block and directly before an
\* Include was parsed, and hosts were returned
WildcardWitness ==
  /\ last.op = "parse"
  /\ Len(last.hosts) > 1
  /\ \E n \in 2..(Len(LinesOf(configPath)) - 1) :
       /\ LinesOf(configPath)[n] = kHost \o SP \o star
       /\ LinesOf(configPath)[n + 1] = kInclude \o SP \o includedPath
       /\ IsHostDirective(configPath, n - 1, <<"a">>)

\* the files named by the Include lines of the file at path that exist
IncludedBy(path) ==
  {q \in AllPaths : /\ last.pre[q].exists
                    /\ \E n \in 1..Len(LinesOf(path)) :
                         LinesOf(path)[n] = kInclude \o SP \o q}

\* the files Parse has to read: the configuration file and what it includes,
\* directly or not
RECURSIVE IncludeClosure(_)
IncludeClosure(files) ==
  LET more == files \cup UNION {IncludedBy(q) : q \in files}
  IN IF more = files THEN files ELSE IncludeClosure(more)

\* the Host directives of the file at path that do not name the wildcard
DirectivesOf(path) ==
  LET lines == LinesOf(path)
      isHost(n) == /\ HasPrefix(lines[n], kHost \o SP)
                   /\ SubSeq(lines[n], Len(kHost) + 2, Len(lines[n])) # star
      at == SelectSeq([n \in 1..Len(lines) |-> n], isHost)
  IN [k \in 1..Len(at) |-> <<at[k], SubSeq(lines[at[k]], Len(kHost) + 2, Len(lines[at[k]]))>>]

\* the parsed hosts of the file at path, as <<line_start, alias>>
ParsedOf(path) ==
  LET own == SelectSeq(last.hosts, LAMBDA h : h.SourceFile = path)
  IN [k \in 1..Len(own) |-> <<own[k].LineStart, own[k].Alias>>]

\* C23: Parse terminates for every include graph, cycles included: each
\* file is parsed at most once per call, so no block is returned twice, and
\* the hosts of every file of the graph are in the result.
IncludeCyclesParsedOnce ==
  (last.op = "parse" /\ last.pre[configPath].exists) =>
    /\ \A j, k \in 1..Len(last.hosts) :
         (/\ last.hosts[j].SourceFile = last.hosts[k].SourceFile
          /\ last.hosts[j].LineStart = last.hosts[k].LineStart) => j = k
    /\ \A q \in IncludeClosure({configPath}) : ParsedOf(q) = DirectivesOf(q)

\* the configuration file includes a file that includes it back and includes
\* itself, twice: the hosts of both files were returned
IncludeCycleWitness ==
  /\ last.op = "parse"
  /\ last.pre[includedPath].data = FileCyclic
  /\ Len(ParsedOf(includedPath)) = 2
  /\ Len(ParsedOf(configPath)) > 0
  /\ Cardinality({n \in 1..Len(LinesOf(configPath)) :
                    LinesOf(configPath)[n] = kInclude \o SP \o includedPath}) = 2

AppendSucceeded == last.op = "append" /\ ~last.crashed /\ last.ret.err = ""

\* C25: append_host leaves the original bytes as a prefix of the new file:
\* a non-empty original is followed by one line separator and the serialised
\* block; on an empty or absent file the new file is exactly the serialised
\* block, with no blank line in front.
AppendKeepsOriginalAsPrefix ==
  AppendSucceeded =>
    /\ fs[configPath].exists
    /\ NowData = PreData \o (IF Len(PreData) = 0 THEN <<>> ELSE NL) \o buildHostBlock(last.h)
    /\ Len(PreData) = 0 => NowData[1] # "\n"

\* a block was appended to an absent configuration file
AppendWitness ==
  /\ AppendSucceeded
  /\ ~last.pre[configPath].exists
  /\ Len(NowData) > 0
  /\ Len(last.h.Groups) > 0

EndsWithNewline(data) == Len(data) > 0 /\ data[Len(data)] = "\n"

\* C26: append_host and replace_host_block preserve the final-newline
\* convention of a non-empty file: the file produced ends with a newline if
\* and only if the original did.
FinalNewlineConventionKept ==
  (/\ AppendSucceeded \/ ReplaceSucceeded
   /\ last.pre[Target].exists
   /\ Len(PreData) > 0) =>
     (EndsWithNewline(NowData) <=> EndsWithNewline(PreData))

\* the call was made on an existing file, with no I/O failure
ReplaceCalledUndisturbed ==
  /\ ReplaceReturned
  /\ last.fault = NoFault
  /\ last.pre[Target].exists

\* line_start is the line of a @group magic comment with a Host line below
PointsAtMagicComment ==
  /\ last.h.LineStart >= 1
  /\ last.h.LineStart < Len(PreLines)
  /\ IsGroupComment(PreLines[last.h.LineStart])
  /\ HasPrefix(ToLower(TrimSpace(PreLines[last.h.LineStart + 1])), ToLower(kHost) \o SP)

PointsAtHostLine ==
  /\ last.h.LineStart >= 1
  /\ last.h.LineStart <= Len(PreLines)
  /\ HasPrefix(ToLower(TrimSpace(PreLines[last.h.LineStart])), ToLower(kHost) \o SP)

\* C27: replace_host_block fails when line_start is 0 or the line at
\* line_start is not a Host directive, with one tolerance: when that line
\* begins with a @group magic comment and the next line begins with Host,
\* the call proceeds. In every other case of a line that is not a Host
\* directive the call fails and the source file is left as it was.
StaleLineStartRejected ==
  ReplaceCalledUndisturbed =>
    /\ (PointsAtHostLine \/ PointsAtMagicComment) => last.ret.err = ""
    /\ ~(PointsAtHostLine \/ PointsAtMagicComment) =>
         /\ last.ret.err # ""
         /\ NowData = PreData

\* ------------------------------------------------------------------------
\* cmd/sssh/main.go: the passthrough invocation
\* ------------------------------------------------------------------------

Opt(c) == <<"-", c>>

\* SSH options that consume the next argument as their value
optWithValue ==
  {Opt(c) : c \in {"b", "c", "D", "E", "e", "F", "I", "i", "J", "L", "l", "m", "o", "p",
                   "Q", "R", "S", "w", "W"}}

sshFlags ==
  optWithValue \cup
  {Opt(c) : c \in {"4", "6", "A", "a", "C", "f", "G", "g", "K", "k", "M", "N", "n", "q",
                   "s", "T", "t", "V", "X", "x", "Y", "y"}}

looksLikeSSHArgs(args) ==
  \E i \in 1..Len(args) : Contains(args[i], <<"@">>) \/ args[i] \in sshFlags

flagConfig == <<"-", "c", "o", "n", "f", "i", "g">>

flagConfigEq == flagConfig \o <<"=">>

\* the value the argument at i gives for the config path, or "none"
configFlagAt(args, i) ==
  IF args[i] \in {<<"-">> \o flagConfig, flagConfig} /\ i + 1 <= Len(args)
    THEN [found |-> TRUE, path |-> args[i + 1]]
  ELSE IF HasPrefix(args[i], <<"-">> \o flagConfigEq)
    THEN [found |-> TRUE, path |-> TrimPrefix(args[i], <<"-">> \o flagConfigEq)]
  ELSE IF HasPrefix(args[i], flagConfigEq)
    THEN [found |-> TRUE, path |-> TrimPrefix(args[i], flagConfigEq)]
  ELSE [found |-> FALSE, path |-> <<>>]

extractConfigFlag(args) ==
  LET hits == {i \in 1..Len(args) : configFlagAt(args, i).found}
  IN IF hits = {} THEN <<>>
     ELSE configFlagAt(args, CHOOSE i \in hits : \A j \in hits : i <= j).path

NoTarget == [dest |-> <<>>, port |-> <<>>, user |-> <<>>, identity |-> <<>>]

RECURSIVE scanArgs(_, _, _)

\* the loop of parseSSHTarget from the 1-based position i on
scanArgs(args, i, t) ==
  IF i > Len(args) THEN t
  ELSE IF args[i] = Opt("p")
    THEN IF i + 1 <= Len(args) THEN scanArgs(args, i + 2, [t EXCEPT !.port = args[i + 1]])
         ELSE scanArgs(args, i + 1, t)
  ELSE IF args[i] = Opt("l")
    THEN IF i + 1 <= Len(args) THEN scanArgs(args, i + 2, [t EXCEPT !.user = args[i + 1]])
         ELSE scanArgs(args, i + 1, t)
  ELSE IF args[i] = Opt("i")
    THEN IF i + 1 <= Len(args) THEN scanArgs(args, i + 2, [t EXCEPT !.identity = args[i + 1]])
         ELSE scanArgs(args, i + 1, t)
  ELSE IF args[i] \in optWithValue /\ i + 1 <= Len(args) THEN scanArgs(args, i + 2, t)
  ELSE IF ~HasPrefix(args[i], <<"-">>) /\ t.dest = <<>>
    THEN scanArgs(args, i + 1, [t EXCEPT !.dest = args[i]])
  ELSE scanArgs(args, i + 1, t)

parseSSHTarget(args) == scanArgs(args, 1, NoTarget)

\* strings.Index(s, "@"), 0-based, -1 when there is none
IndexAt(s) ==
  IF Contains(s, <<"@">>)
  THEN (CHOOSE i \in 1..Len(s) : s[i] = "@" /\ \A j \in 1..(i - 1) : s[j] # "@") - 1
  ELSE -1

\* the working directory of the process
cwd == <<"/", "w">>

\* filepath.Abs of a path without "." or ".." elements
Abs(path) == IF HasPrefix(path, <<"/">>) THEN path ELSE cwd \o <<"/">> \o path

\* the destination split at its first "@", the user of -l kept when given,
\* and the port defaulted
splitTarget(t) ==
  LET idx == IndexAt(t.dest)
  IN [hostname |-> IF idx >= 0 THEN SubSeq(t.dest, idx + 2, Len(t.dest)) ELSE t.dest,
      user |-> IF idx >= 0 /\ t.user = <<>> THEN SubSeq(t.dest, 1, idx) ELSE t.user,
      port |-> IF t.port = <<>> THEN port22 ELSE t.port,
      identity |-> t.identity]

\* the host block with the bare hostname for its alias
syntheticHostBareAlias(r) ==
  [EmptyHost EXCEPT !.Alias = r.hostname,
                    !.Hostname = r.hostname,
                    !.User = r.user,
                    !.Port = r.port,
                    !.IdentityFile = IF r.identity # <<>> THEN Abs(r.identity) ELSE <<>>]

\* the host block registered for an unknown destination
syntheticHost(r) ==
  [EmptyHost EXCEPT !.Alias = IF r.user # <<>> THEN r.user \o <<"-">> \o r.hostname
                               ELSE r.hostname,
                    !.Hostname = r.hostname,
                    !.User = r.user,
                    !.Port = r.port,
                    !.IdentityFile = IF r.identity # <<>> THEN Abs(r.identity) ELSE <<>>]

\* platform.SSHConfigPath() unless --config names another file
passthroughConfigPath(configOverride) ==
  IF configOverride # <<>> THEN configOverride ELSE configPath

\* filepath.Join(filepath.Dir(configPath), "config.bak"): every file of the
\* model lies in the directory whose "config" is configPath
passthroughBackupPath(cfg) == configPath \o bakSuffix

\* runPassthrough up to the hand-off: what it does to the files and what it
\* prints, for the I/O failure AppendHost meets
runPassthroughRegister(files, args, configOverride, fault) ==
  LET t == parseSSHTarget(args)
      r == splitTarget(t)
      cfg == passthroughConfigPath(configOverride)
      h == syntheticHost(r)
  IN IF t.dest = <<>>
     THEN [fs |-> files, exit |-> 1, target |-> t, hostname |-> <<>>, known |-> FALSE,
           registered |-> "none", diag |-> <<"no destination">>, call |-> NoCall, cfg |-> cfg]
     ELSE IF IsKnownHost(Parse(files, cfg).hosts, r.hostname)
     THEN [fs |-> files, exit |-> -1, target |-> [t EXCEPT !.user = r.user, !.port = r.port],
           hostname |-> r.hostname, known |-> TRUE,
           registered |-> "skipped", diag |-> <<>>, call |-> NoCall, cfg |-> cfg]
     ELSE LET a == AppendHost(files, cfg, passthroughBackupPath(cfg), h, fault)
          IN [fs |-> a.fs, exit |-> -1, target |-> [t EXCEPT !.user = r.user, !.port = r.port],
              hostname |-> r.hostname, known |-> FALSE,
              registered |-> IF a.err = "" THEN "appended" ELSE "failed",
              diag |-> IF a.err = "" THEN <<"saved">> ELSE <<"warning">>,
              call |-> [NoCall EXCEPT !.op = "append", !.pre = files, !.h = h,
                                      !.fault = fault, !.ret.err = a.err],
              cfg |-> cfg]

\* ------------------------------------------------------------------------
\* SpecPass: the program started with SSH-style arguments, up to MaxRuns
\* times in a row, on a configuration that knows hostname x
\* ------------------------------------------------------------------------

MaxArgs == 3

MaxRuns == 2

ArgAlphabet ==
  {Opt("p"), Opt("l"), Opt("i"), Opt("o"), Opt("4"), <<"-">> \o flagConfig,
   <<"x">>, otherPath, <<"u", "@", "o">>, <<>>}

ArgLists == UNION {[1..n -> ArgAlphabet] : n \in 1..MaxArgs}

\* the invocations main hands to runPassthrough, with a config override that
\* names a file of the model
PassthroughArgs ==
  {a \in ArgLists : looksLikeSSHArgs(a) /\ extractConfigFlag(a) \in {<<>>, otherPath}}

PassFaults == {NoFault, [at |-> "bak", cut |-> -1], [at |-> "write", cut |-> 1]}

ChildStatuses == {0, 255}

PassInitialFs ==
  {[MkFs(cfg, NoFile) EXCEPT ![otherPath] = File(FileOther)] : cfg \in {File(FileS4), NoFile}}

Started(args, runs, files) ==
  [NoPassthrough EXCEPT !.pc = "start", !.args = args, !.runs = runs, !.pre = files,
                        !.configPath = passthroughConfigPath(extractConfigFlag(args))]

InitPass ==
  /\ fs \in PassInitialFs
  /\ m \in New(<<>>, NoConns)
  /\ conns = NoConns
  /\ inbox = <<>>
  /\ last = NoCall
  /\ nOps = 0
  /\ ssh = NoRuns
  /\ \E args \in PassthroughArgs : pt = Started(args, 1, fs)

\* runPassthrough from its first line to the end of the registration
Register ==
  /\ pt.pc = "start"
  /\ \E fault \in PassFaults :
       \E r \in {runPassthroughRegister(fs, pt.args, extractConfigFlag(pt.args), fault)} :
          /\ fs' = r.fs
          /\ last' = IF r.call.op = "none" THEN last ELSE r.call
          /\ nOps' = IF r.call.op = "none" THEN nOps ELSE nOps + 1
          /\ pt' = [pt EXCEPT !.pc = IF r.exit = 1 THEN "exited" ELSE "registered",
                               !.target = r.target, !.hostname = r.hostname,
                               !.known = r.known, !.registered = r.registered,
                               !.exit = r.exit, !.diag = r.diag]
  /\ UNCHANGED <<m, conns, inbox, ssh>>

\* exec.Command("ssh", args...).Run(): the client runs with the arguments the
\* program was given and the program exits 1 unless the client exits 0
RunSSH ==
  /\ pt.pc = "registered"
  /\ \E status \in ChildStatuses :
       pt' = [pt EXCEPT !.pc = "exited", !.spawned = Append(@, pt.args),
                        !.child = status, !.exit = IF status # 0 THEN 1 ELSE 0]
  /\ UNCHANGED <<fs, m, conns, inbox, last, nOps, ssh>>

\* the same command line is run again
Reinvoke ==
  /\ pt.pc = "exited"
  /\ pt.runs < MaxRuns
  /\ pt' = Started(pt.args, pt.runs + 1, fs)
  /\ UNCHANGED <<fs, m, conns, inbox, last, nOps, ssh>>

NextPass == Register \/ RunSSH \/ Reinvoke

SpecPass == InitPass /\ [][NextPass]_vars

\* ------------------------------------------------------------------------
\* Properties of the passthrough invocation (checked under SpecPass)
\* ------------------------------------------------------------------------

\* the run found a destination and its registration attempt is over
RegistrationOver == pt.pc \in {"registered", "exited"} /\ pt.target.dest # <<>>

KnownBefore ==
  \E i \in 1..Len(Parse(pt.pre, pt.configPath).hosts) :
     Parse(pt.pre, pt.configPath).hosts[i].Hostname = pt.hostname

ExpectedAlias ==
  IF pt.target.user # <<>> THEN pt.target.user \o <<"-">> \o pt.hostname ELSE pt.hostname

\* the bytes the run added to the end of its config file
AddedText ==
  SubSeq(fs[pt.configPath].data, Len(pt.pre[pt.configPath].data) + 1,
         Len(fs[pt.configPath].data))

AddedHostLines == SelectSeq(Split(AddedText, "\n"), IsHostLine)

\* C28: passthrough appends a host block to the target config if and only
\* if no parsed host's hostname equals the destination hostname; the block's
\* alias is <user>-<hostname> when a user is known and the bare hostname
\* otherwise; when the hostname is known neither the config file nor the
\* backup (nor any other file) is written.
RegistersUnknownHostnamesOnly ==
  RegistrationOver =>
    /\ KnownBefore => fs = pt.pre /\ pt.registered = "skipped"
    /\ fs # pt.pre => ~KnownBefore
    /\ (~KnownBefore /\ pt.registered = "appended") =>
         /\ fs[pt.configPath].exists
         /\ HasPrefix(fs[pt.configPath].data, pt.pre[pt.configPath].data)
         /\ AddedHostLines = <<kHost \o SP \o ExpectedAlias>>
         /\ IsKnownHost(Parse(fs, pt.configPath).hosts, pt.hostname)
    /\ ~KnownBefore => pt.registered \in {"appended", "failed"}
    /\ (~KnownBefore /\ pt.registered = "failed") => last.ret.err # ""

\* a destination with a user was registered, and the run of the same
\* command line after it found the hostname known
RegisteredWitness ==
  /\ pt.pc = "exited"
  /\ pt.registered = "appended"
  /\ pt.target.user # <<>>
  /\ pt.hostname = otherPath
  /\ fs[pt.configPath].data # pt.pre[pt.configPath].data

\* C29: passthrough spawns the external SSH client exactly once, only after
\* the registration attempt has finished (appended, skipped or failed), with
\* the original argument list unchanged, and the program's exit status is 0
\* exactly when the child's exit status is 0.
SpawnsOnceAfterRegistration ==
  /\ Len(pt.spawned) <= 1
  /\ Len(pt.spawned) = 1 =>
       /\ pt.registered \in {"appended", "skipped", "failed"}
       /\ pt.spawned[1] = pt.args
  /\ pt.pc = "exited" =>
       /\ Len(pt.spawned) = 1
       /\ pt.exit = 0 <=> pt.child = 0

RECURSIVE IsOptionValue(_, _)

\* the argument at i is the value of the value-taking option before it
IsOptionValue(args, i) ==
  /\ i > 1
  /\ args[i - 1] \in optWithValue
  /\ ~IsOptionValue(args, i - 1)

Positionals(args) ==
  {i \in 1..Len(args) : ~HasPrefix(args[i], <<"-">>) /\ ~IsOptionValue(args, i)}

FirstPositional(args) ==
  IF Positionals(args) = {} THEN <<>>
  ELSE args[CHOOSE i \in Positionals(args) : \A j \in Positionals(args) : i <= j]

\* the values given to the option -c, c a letter
ValuesOf(args, c) ==
  {args[i + 1] : i \in {j \in 1..(Len(args) - 1) : args[j] = Opt(c) /\ ~IsOptionValue(args, j)}}

UserPrefix(dest) ==
  IF \E i \in 1..Len(dest) : dest[i] = "@"
  THEN SubSeq(dest, 1, (CHOOSE i \in 1..Len(dest) : dest[i] = "@" /\ \A j \in 1..(i - 1) : dest[j] # "@") - 1)
  ELSE <<>>

\* C30: in passthrough parsing the destination is the first argument that
\* neither starts with '-' nor is the value of a preceding value-taking SSH
\* option; a user@ prefix of the destination supplies the user only when no
\* -l user was given; the port is the -p value, or 22 when none was given.
ParsedTargetFollowsArguments ==
  pt.pc \in {"registered", "exited"} =>
    /\ pt.target.dest = FirstPositional(pt.args)
    /\ pt.target.dest # <<>> =>
         /\ ValuesOf(pt.args, "l") # {} => pt.target.user \in ValuesOf(pt.args, "l")
         /\ ValuesOf(pt.args, "l") = {} => pt.target.user = UserPrefix(pt.target.dest)
         /\ ValuesOf(pt.args, "p") # {} => pt.target.port \in ValuesOf(pt.args, "p")
         /\ ValuesOf(pt.args, "p") = {} => pt.target.port = port22

\* ------------------------------------------------------------------------
\* More properties of the interactive model (checked under Spec)
\* ------------------------------------------------------------------------

\* the step changes the query, or delivers a saved-edit message
FilterRecomputed ==
  \/ m'.searchQuery # m.searchQuery
  \/ \E i \in 1..Len(inbox) : inbox[i].type = "editSaved" /\ inbox' = Without(inbox, i)

MaxHosts == 3

MaxCount == 2

NewAliases == {<<"a">>, <<"A">>, <<"b">>}

\* hosts as the parser returns them, each at its own line of the config file
NewHostLists ==
  UNION {{[i \in 1..n |-> [EmptyHost EXCEPT !.Alias = al[i], !.Hostname = <<"x">>,
                                           !.Port = port22, !.SourceFile = configPath,
                                           !.LineStart = 2 * i - 1]] :
           al \in [1..n -> NewAliases]} : n \in 0..MaxHosts}

InitNew ==
  /\ fs = MkFs(NoFile, NoFile)
  /\ m \in New(<<>>, NoConns)
  /\ conns \in [NewAliases -> 0..MaxCount]
  /\ inbox = <<>>
  /\ \E hosts \in NewHostLists : last = [NoCall EXCEPT !.hosts = hosts]
  /\ nOps = 0
  /\ ssh = NoRuns
  /\ pt = NoPassthrough

\* tui.New(hosts, st, statePath, false)
Construct ==
  /\ nOps = 0
  /\ m' \in New(last.hosts, conns)
  /\ last' = [last EXCEPT !.op = "new"]
  /\ nOps' = 1
  /\ UNCHANGED <<fs, conns, inbox, ssh, pt>>

\* tui.New(hosts, st, statePath, true)
ConstructFlat ==
  /\ nOps = 0
  /\ m' \in NewNoFrequent(last.hosts)
  /\ last' = [last EXCEPT !.op = "newflat"]
  /\ nOps' = 1
  /\ UNCHANGED <<fs, conns, inbox, ssh, pt>>

NextNew == Construct \/ ConstructFlat

SpecNew == InitNew /\ [][NextNew]_vars

Occurrences(seq, x) == Cardinality({i \in 1..Len(seq) : seq[i] = x})

IsPermutationOf(a, b) ==
  /\ Len(a) = Len(b)
  /\ \A i \in 1..Len(b) : Occurrences(a, b[i]) = Occurrences(b, b[i])

moreConnections(x, y) == Count(conns, x.Alias) > Count(conns, y.Alias)

\* the order the presentation rule gives: hosts with a positive count by
\* count descending, then the others by alias, ties in input order
PresentationOrder(hosts) ==
  StableSort(SelectSeq(hosts, LAMBDA h : Count(conns, h.Alias) > 0), moreConnections)
  \o StableSort(SelectSeq(hosts, LAMBDA h : Count(conns, h.Alias) = 0), aliasLess)

LoadAliases == {<<"a">>, <<"b">>, <<"e">>}

StateFiles ==
  {NoFile}
  \cup {File(Marshal([Connections |-> c, FirstRun |-> f])) :
          c \in [LoadAliases -> 0..MaxCount], f \in BOOLEAN}
  \cup {File(WithoutConnections(f)) : f \in BOOLEAN}
  \cup {File(d) : d \in Corrupted}

InitLoad ==
  /\ \E sf \in StateFiles : fs = [MkFs(NoFile, NoFile) EXCEPT ![statePath] = sf]
  /\ m \in New(<<>>, NoConns)
  /\ conns = NoConns
  /\ inbox = <<>>
  /\ last = NoCall
  /\ nOps = 0
  /\ ssh = NoRuns
  /\ pt = NoPassthrough

DoLoad(readFails) ==
  /\ nOps = 0
  /\ \E r \in {Load(fs, statePath, readFails)} :
       /\ conns' = r.Connections
       /\ m' = [m EXCEPT !.firstRun = r.FirstRun]
       /\ last' = [NoCall EXCEPT !.op = "load", !.pre = fs, !.ret.err = r.err,
                                 !.fault = IF readFails THEN [at |-> "read", cut |-> 0]
                                           ELSE NoFault]
  /\ nOps' = 1
  /\ UNCHANGED <<fs, inbox, ssh, pt>>

\* main: state.Load(statePath)
LoadState == nOps = 0 /\ DoLoad(FALSE)

\* os.ReadFile fails on a file that is there
LoadUnreadable == fs[statePath].exists /\ DoLoad(TRUE)

NextLoad == LoadState \/ LoadUnreadable

SpecLoad == InitLoad /\ [][NextLoad]_vars

\* C33: loading the state never fails: a missing state file yields empty
\* counts with first_run true, and a state file that is present but cannot
\* be read as a valid state yields empty counts with first_run false.
LoadNeverFails ==
  last.op = "load" =>
    /\ last.ret.err = ""
    /\ ~fs[statePath].exists => DOMAIN conns = {} /\ m.firstRun
    /\ (/\ fs[statePath].exists
        /\ last.fault.at = "read" \/ Len(fs[statePath].data) \notin {1, 2}) =>
          DOMAIN conns = {} /\ ~m.firstRun

\* ------------------------------------------------------------------------
\* SpecOpen: Ctrl+E pressed in Normal or Search mode on any short host
\* list, hosts without a tracked line position among them
\* ------------------------------------------------------------------------

MaxOpenHosts == 2

OpenHostLists ==
  UNION {{[i \in 1..n |-> [EmptyHost EXCEPT !.Alias = al[i], !.Hostname = <<"x">>,
                                           !.Port = port22, !.SourceFile = configPath,
                                           !.LineStart = ls[i]]] :
           al \in [1..n -> {<<"a">>, <<"b">>}], ls \in [1..n -> {0, 1, 3}]} : n \in 0..MaxOpenHosts}

OpenQueries == {<<>>, <<"a">>, <<"z">>}

\* the models the key can meet: every query, every cursor position
OpenModels ==
  UNION {{[applySearch([x EXCEPT !.searchQuery = q,
                                 !.mode = IF q = <<>> THEN "Normal" ELSE "Search"])
             EXCEPT !.cursor = c] :
            c \in {c \in 0..(MaxOpenHosts - 1) : c = 0 \/ c < Len(applySearch([x EXCEPT !.searchQuery = q]).filtered)}} :
           x \in UNION {New(h, NoConns) : h \in OpenHostLists}, q \in OpenQueries}

InitOpen ==
  /\ fs = MkFs(NoFile, NoFile)
  /\ m \in OpenModels
  /\ conns = NoConns
  /\ inbox = <<>>
  /\ last = NoCall
  /\ nOps = 0
  /\ ssh = NoRuns
  /\ pt = NoPassthrough

\* Update on the key ctrl+e
OpenEdit ==
  /\ nOps = 0
  /\ m' = handleKey(m, fs, conns, Key("ctrl+e"), NoFault, NoFault).m
  /\ nOps' = 1
  /\ UNCHANGED <<fs, conns, inbox, last, ssh, pt>>

NextOpen == OpenEdit

SpecOpen == InitOpen /\ [][NextOpen]_vars

Editable == Len(m.filtered) > 0 /\ m.filtered[m.cursor + 1].LineStart # 0

\* C34: Ctrl+E opens the edit form only when a host is selected and its
\* line_start is non-zero; with an empty filtered list, or a selected host
\* whose line_start is 0, the mode is unchanged, no form is created and a
\* status message is set.
EditOpensOnlyOnTrackedHost ==
  [][/\ Editable => /\ m'.mode = "Edit"
                    /\ m'.edit.open
                    /\ m'.edit.original = m.filtered[m.cursor + 1]
     /\ ~Editable => /\ m'.mode = m.mode
                     /\ ~m'.edit.open
                     /\ m'.statusMsg # ""
                     /\ m'.allHosts = m.allHosts /\ m'.filtered = m.filtered]_vars

\* Ctrl+E was pressed on a selected host without a line position
EditRefusedWitness ==
  /\ nOps = 1
  /\ m.mode = "Search"
  /\ Len(m.filtered) > 0
  /\ m.filtered[m.cursor + 1].LineStart = 0
  /\ m.statusMsg = "Cannot edit: host has no tracked line position."
  /\ ~m.edit.open

\* ------------------------------------------------------------------------
\* The written block parsed again (checked under SpecCall)
\* ------------------------------------------------------------------------

\* the port the parser gives a host without a Port line
PortOrDefault(port) == IF port = <<>> THEN port22 ELSE port

SameContents(p, h) ==
  /\ p.Alias = h.Alias
  /\ p.Hostname = h.Hostname
  /\ p.User = h.User
  /\ p.Port = PortOrDefault(h.Port)
  /\ p.IdentityFile = h.IdentityFile
  /\ p.Groups = h.Groups

\* C35: after a successful replace_host_block, parsing the file again
\* yields, at the returned new_line_start, a host whose alias, hostname,
\* user, port, identity file and groups are those of the intended host that
\* was passed in (an empty port standing for the default 22).
RewrittenHostParsesBack ==
  ReplaceSucceeded =>
    \E i \in 1..Len(Parse(fs, Target).hosts) :
       /\ Parse(fs, Target).hosts[i].LineStart = last.ret.newLineStart
       /\ Parse(fs, Target).hosts[i].SourceFile = Target
       /\ SameContents(Parse(fs, Target).hosts[i], last.h)

\* ------------------------------------------------------------------------
\* The narrowed list and the mode (checked under Spec)
\* ------------------------------------------------------------------------

\* C36: whenever the model is in Normal mode the search query is empty and
\* filtered equals all_hosts: a narrowed list exists only in Search mode or
\* in Edit mode.
NormalModeShowsAllHosts ==
  m.mode = "Normal" => m.searchQuery = <<>> /\ m.filtered = m.allHosts

\* ------------------------------------------------------------------------
\* SpecPending: the edit form stays open after Enter until the message of
\* the finished save reaches Update; keys pressed in between are handled
\* against the model of before the save and the file of after it
\* ------------------------------------------------------------------------

\* Enter keys per edit form
MaxPending == 2

\* a save was made and its message has not reached Update
SavePending == \E i \in 1..Len(inbox) : inbox[i].type = "editSaved"

InitPending == Init

\* the user picks a host, or walks through the fields of the form
PendingDown ==
  /\ nOps = 0
  /\ m.mode \in {"Normal", "Edit"}
  /\ Press(Key("down"), NoFault)

PendingOpen ==
  /\ nOps = 0
  /\ m.mode = "Normal"
  /\ Press(Key("ctrl+e"), NoFault)

\* the form is filled in before the first Enter
PendingClear ==
  /\ nOps = 0
  /\ m.mode = "Edit"
  /\ OthersUntouched
  /\ Press(Key("ctrl+u"), NoFault)

PendingType ==
  /\ nOps = 0
  /\ m.mode = "Edit"
  /\ OthersUntouched
  /\ Len(m.edit.fields[m.edit.activeField + 1]) < MaxField
  /\ \E c \in FormRunes : Press([name |-> "runes", rune |-> c], NoFault)

\* Enter, and Enter again on the form that stayed open
PendingEnter ==
  /\ m.mode = "Edit"
  /\ nOps < MaxPending
  /\ Press(Key("enter"), NoFault)

\* the other keys of the form while the save is on its way
PendingKey ==
  /\ m.mode = "Edit"
  /\ SavePending
  /\ \E name \in {"up", "esc"} : Press(Key(name), NoFault)

PendingSaved == SavePending /\ EditSaved

NextPending ==
  \/ PendingDown
  \/ PendingOpen
  \/ PendingClear
  \/ PendingType
  \/ PendingEnter
  \/ PendingKey
  \/ PendingSaved

SpecPending == InitPending /\ [][NextPending]_vars

\* ------------------------------------------------------------------------
\* Keys between a save and its message (checked under SpecPending)
\* ------------------------------------------------------------------------

\* the configuration files
ConfigFiles == {configPath, includedPath}

\* C37: a key handled in Edit mode after replace_host_block rewrote the file
\* and before the saved-edit message updated the model modifies no block
\* other than the edited host's: a repeated Enter either rewrites the same
\* block with the same content, so that the configuration files keep their
\* bytes, or fails with the stale line_start error; and once every pending
\* saved-edit message was applied, the line_start values held in memory are
\* those of a re-parse of the file.
KeysBeforeSavedMessageAreHarmless ==
  /\ [][(m.mode = "Edit" /\ SavePending) =>
          /\ \A f \in ConfigFiles : fs'[f] = fs[f]
          /\ nOps' # nOps => last'.ret.err \in {"", "stale"}]_vars
  /\ []((nOps = MaxPending /\ ~SavePending) => LineStartFidelity)

\* ------------------------------------------------------------------------
\* Connecting from the list (checked under Spec)
\* ------------------------------------------------------------------------

\* what Enter does outside the form in this state, every I/O call succeeding
ConnectNow == connectToSelected(m, fs, conns, NoFault, NoFault)

\* C38: in every reachable state of the model each host in filtered is a
\* current entry of all_hosts, so the hostname of the selected host is known
\* and a Connect from the list appends no block: it makes no call to the
\* writer and leaves the configuration files and their backup as they are.
ConnectFromListNeverRegisters ==
  /\ \A i \in 1..Len(m.filtered) :
       \E j \in 1..Len(m.allHosts) : m.allHosts[j] = m.filtered[i]
  /\ last.op # "append"
  /\ m.mode # "Edit" =>
       /\ ConnectNow.call = NoCall
       /\ \A f \in ConfigFiles \cup {backupPath} : ConnectNow.fs[f] = fs[f]

\* a connection was made from a narrowed list: the SSH client ran and the
\* configuration is the one read at startup
ConnectFromListWitness ==
  /\ Connects = 1
  /\ Len(ssh.runs) = 1
  /\ m.mode = "Search"
  /\ Len(m.filtered) < Len(m.allHosts)
  /\ last = NoCall

\* ------------------------------------------------------------------------
\* The config override in passthrough mode (checked under SpecPass)
\* ------------------------------------------------------------------------

\* the position of the first argument that gives a config path, 0 if none
ConfigFlagIndex(args) ==
  LET hits == {i \in 1..Len(args) : configFlagAt(args, i).found}
  IN IF hits = {} THEN 0 ELSE CHOOSE i \in hits : \A j \in hits : i <= j

\* the arguments without --config and its PATH
WithoutConfigFlag(args) ==
  SubSeq(args, 1, ConfigFlagIndex(args) - 1)
    \o SubSeq(args, ConfigFlagIndex(args) + 2, Len(args))

\* --config PATH is given, as an option of its own and with a PATH that is
\* not empty, before the destination
ConfigAheadOfDestination(args) ==
  /\ ConfigFlagIndex(args) > 0
  /\ extractConfigFlag(args) # <<>>
  /\ args[ConfigFlagIndex(args)] = <<"-">> \o flagConfig
  /\ ~IsOptionValue(args, ConfigFlagIndex(args))
  /\ parseSSHTarget(SubSeq(args, 1, ConfigFlagIndex(args) - 1)).dest = <<>>
  /\ parseSSHTarget(WithoutConfigFlag(args)).dest # <<>>

\* C39: when the passthrough arguments hold --config PATH ahead of the
\* destination, PATH is used only as the configuration file: the hostname
\* and the user that are looked up and registered are those of the SSH
\* destination argument, never PATH.
ConfigPathOnlyNamesTheFile ==
  (pt.pc \in {"registered", "exited"} /\ ConfigAheadOfDestination(pt.args)) =>
    /\ pt.configPath = extractConfigFlag(pt.args)
    /\ pt.hostname = splitTarget(parseSSHTarget(WithoutConfigFlag(pt.args))).hostname
    /\ pt.target.user = splitTarget(parseSSHTarget(WithoutConfigFlag(pt.args))).user

\* ------------------------------------------------------------------------
\* The same command line run twice (checked under SpecPass)
\* ------------------------------------------------------------------------

\* the second run found a destination and its registration attempt is over
SecondRunOver == pt.runs = 2 /\ RegistrationOver

\* the block the run registers for its destination
BlockOfRun == buildHostBlock(syntheticHost(splitTarget(pt.target)))

\* the first run left the host registered: it made no call to the writer,
\* the host being known, or the config it left ends with the host's block
FirstRunRegistered ==
  \/ nOps = 0
  \/ HasSuffix(pt.pre[pt.configPath].data, BlockOfRun)

====
